---- MODULE Spec2Model ----
(***************************************************************************)
(* Sales-traffic analytics dashboard (mihnin/example02).                   *)
(*                                                                         *)
(* Ingestion: data_loader.load_sales_data and its refactoring              *)
(* data_loader_refactored.load_sales_data, both memoized by st.cache_data. *)
(* Analysis: the functions of analysis.py over a date-indexed table.       *)
(*                                                                         *)
(* Text is modelled as a sequence of characters so that lower-casing,      *)
(* substring search, endswith and Path.suffix are computed, not assumed.   *)
(* Cyrillic letters are written by code point: "U0414" is the capital De,  *)
(* "U0434" the small de, and so on.                                        *)
(***************************************************************************)
EXTENDS Integers, Sequences, FiniteSets, TLC

VARIABLES
    fs,        \* the file system: path -> file content, or None when absent
    requests,  \* the argument pairs (file_path, uploaded_file) callers pass
    cache,     \* st.cache_data of data_loader.load_sales_data
    cacheR,    \* st.cache_data of data_loader_refactored.load_sales_data
    ret,       \* outcome of the last data_loader.load_sales_data call
    retR,      \* outcome of the last data_loader_refactored.load_sales_data call
    steps,     \* number of operations performed so far
    df,        \* the table handed to the analysis functions
    res,       \* outcome of the last analysis call
    run        \* the run of app.main: its position and what it has called

vars == <<fs, requests, cache, cacheR, ret, retR, steps, df, res, run>>

(***************************************************************************)
(* Bounds of the model.                                                    *)
(***************************************************************************)
MaxCols == 3      \* columns of an ingested raw table
MaxSteps == 4     \* operations in one run
MaxARows == 2     \* rows of a table handed to the analysis functions

(***************************************************************************)
(* Python values.                                                          *)
(***************************************************************************)
None == [none |-> TRUE]
Some(v) == [none |-> FALSE, v |-> v]

\* ---- characters and strings -------------------------------------------
\* str.lower() on one character
LowerChar(c) ==
    LET upper ==
          <<"A","B","C","D","E","F","G","H","I","J","K","L","M","N","O","P","Q",
            "R","S","T","U","V","W","X","Y","Z","U0414","U0412">>
        lower ==
          <<"a","b","c","d","e","f","g","h","i","j","k","l","m","n","o","p","q",
            "r","s","t","u","v","w","x","y","z","U0434","U0432">>
    IN IF \E i \in 1..Len(upper) : upper[i] = c
       THEN lower[CHOOSE i \in 1..Len(upper) : upper[i] = c]
       ELSE c

\* str.lower()
Lower(s) == [i \in 1..Len(s) |-> LowerChar(s[i])]

\* the Python test  sub in s
Contains(sub, s) ==
    \E i \in 0..(Len(s) - Len(sub)) : \A j \in 1..Len(sub) : s[i + j] = sub[j]

\* str.endswith
EndsWith(s, suf) ==
    /\ Len(s) >= Len(suf)
    /\ \A j \in 1..Len(suf) : s[Len(s) - Len(suf) + j] = suf[j]

\* pathlib.PurePath(name).suffix for a name without directory separators:
\* from the last dot on, unless that dot is first, last or missing (i is
\* str.rfind(".") in 1-based positions, 0 when there is no dot)
PathSuffix(s) ==
    LET i == IF \E k \in 1..Len(s) : s[k] = "."
             THEN CHOOSE k \in 1..Len(s) :
                    s[k] = "." /\ \A j \in (k+1)..Len(s) : s[j] # "."
             ELSE 0
    IN
    IF 1 < i /\ i < Len(s) THEN SubSeq(s, i, Len(s)) ELSE <<>>

\* ---- literals of the source ---------------------------------------------
DOT_XLSX == <<".","x","l","s","x">>
DOT_XLS == <<".","x","l","s">>
DOT_CSV == <<".","c","s","v">>
TOKEN_DATA == <<"U0434","U0430","U0442","U0430">>             \* 'дата'
TOKEN_DATE == <<"d","a","t","e">>                             \* 'date'
TOKEN_VREMYA == <<"U0432","U0440","U0435","U043C","U044F">>   \* 'время'
UNNAMED_0 == <<"U","n","n","a","m","e","d",":"," ","0">>      \* 'Unnamed: 0'
TOKEN_UNNAMED_0 == <<"u","n","n","a","m","e","d",":"," ","0">> \* 'unnamed: 0'
DEFAULT_DATE_COLUMN_NAME == <<"U0414","U0430","U0442","U0430">> \* 'Дата'
DEFAULT_DATA_PATH ==    \* "docs/sample_sales_data.xlsx"
    <<"d","o","c","s","/","s","a","m","p","l","e","_","s","a","l","e","s",
      "_","d","a","t","a",".","x","l","s","x">>
DATE_COLUMN_INDICATORS == {TOKEN_DATA, TOKEN_DATE, TOKEN_VREMYA, TOKEN_UNNAMED_0}
NUMERIC_DTYPES == {"int64", "float64"}

HeadLen == 5    \* Series.head() keeps the first five rows

(***************************************************************************)
(* Cells, columns and tables.                                              *)
(*                                                                         *)
(* A cell is [k, v]: a date (a parseable date string or a spreadsheet      *)
(* date, v its instant in ticks), a text that is no date, an integer, a    *)
(* float (v counts halves, so v = 3 is 1.5) or a missing value.            *)
(***************************************************************************)
DateCell(t) == [k |-> "date", v |-> t]
TextCell == [k |-> "text", v |-> 0]
IntCell(n) == [k |-> "int", v |-> n]
FloatCell(h) == [k |-> "float", v |-> h]
NaN == [k |-> "nan", v |-> 0]
Timestamp(t) == [k |-> "ts", v |-> t]
NaT == [k |-> "nat", v |-> 0]

\* the dtype the pandas readers infer for a column
InferDtype(cells, fmt) ==
    IF Len(cells) = 0 THEN "object"
    ELSE IF \A i \in 1..Len(cells) : cells[i].k = "int" THEN "int64"
    ELSE IF \A i \in 1..Len(cells) : cells[i].k \in {"int", "float", "nan"}
         THEN "float64"
    ELSE IF fmt = "excel" /\ \A i \in 1..Len(cells) : cells[i].k \in {"date", "nan"}
         THEN "datetime64"
    ELSE "object"

RangeIndex(n) == [i \in 1..n |-> [k |-> "pos", v |-> i - 1]]

\* pd.DataFrame()
EmptyDF == [index |-> <<>>, indexType |-> "range", columns |-> <<>>]

\* DataFrame.empty
IsEmpty(d) == Len(d.columns) = 0 \/ Len(d.index) = 0

\* the frame a reader builds from the sheet `table` (a sequence of [name, cells])
Frame(table, fmt) ==
    [index |-> RangeIndex(IF Len(table) = 0 THEN 0 ELSE Len(table[1].cells)),
     indexType |-> "range",
     columns |-> [i \in 1..Len(table) |->
                     [name |-> table[i].name,
                      dtype |-> InferDtype(table[i].cells, fmt),
                      cells |-> table[i].cells]]]

(***************************************************************************)
(* Exceptions: an operator that can raise returns [exc, msg, val].         *)
(***************************************************************************)
Ok(v) == [exc |-> "none", msg |-> "none", val |-> v]
Raise(e, m) == [exc |-> e, msg |-> m, val |-> EmptyDF]

\* the classes an except clause naming `handler` catches
ClassesOf(e) ==
    CASE e = "UnicodeDecodeError" -> {"UnicodeDecodeError", "ValueError", "Exception"}
      [] e = "FileNotFoundError" -> {"FileNotFoundError", "OSError", "Exception"}
      [] OTHER -> {e, "Exception"}
Catches(handler, e) == e # "none" /\ handler \cap ClassesOf(e) # {}

\* pd.read_excel: raises on content that is no workbook
read_excel(f) ==
    IF f.fmt = "excel" THEN Ok(Frame(f.table, "excel"))
    ELSE Raise("ValueError", "read_error")

\* pd.read_csv: raises on content that is no text
read_csv(f) ==
    IF f.fmt = "csv" THEN Ok(Frame(f.table, "csv"))
    ELSE Raise("UnicodeDecodeError", "read_error")

\* pd.to_datetime on the cells of one column: a text that is no date raises,
\* numbers are nanoseconds since the epoch, missing values become NaT
to_datetime(cells) ==
    IF \E i \in 1..Len(cells) : cells[i].k = "text"
    THEN Raise("ValueError", "unparseable_dates")
    ELSE Ok([i \in 1..Len(cells) |->
              CASE cells[i].k = "date" -> Timestamp(cells[i].v)
                [] cells[i].k = "nan" -> NaT
                [] OTHER -> Timestamp(IF cells[i].v >= 0 THEN 0 ELSE -1)])

\* Series.head()
head(cells) == SubSeq(cells, 1, IF Len(cells) < HeadLen THEN Len(cells) ELSE HeadLen)

\* the positions of the columns named `name`
Named(d, name) == {i \in 1..Len(d.columns) : d.columns[i].name = name}

\* a rename that leaves the frame as it was
rename_Dropped(d, old, new) == d

\* DataFrame.rename(columns={old: new})
rename(d, old, new) ==
    [d EXCEPT !.columns = [i \in 1..Len(d.columns) |->
        IF d.columns[i].name = old
        THEN [d.columns[i] EXCEPT !.name = new] ELSE d.columns[i]]]

\* the sequence s without the positions in drop
Without(s, drop) ==
    LET keep(n) == Cardinality({j \in 1..Len(s) : j \notin drop /\ j <= n})
        pos(m) == CHOOSE j \in 1..Len(s) : j \notin drop /\ keep(j) = m
    IN [m \in 1..keep(Len(s)) |-> s[pos(m)]]

\* df[name] = pd.to_datetime(df[name]) followed by df.set_index(name):
\* with two columns of that name df[name] is a frame and to_datetime raises
convert_and_set_index(d, name) ==
    LET at == Named(d, name) IN
    IF Cardinality(at) # 1 THEN Raise("ValueError", "unparseable_dates")
    ELSE LET i == CHOOSE j \in at : TRUE
             parsed == to_datetime(d.columns[i].cells)
         IN IF parsed.exc # "none" THEN parsed
            ELSE Ok([index |-> parsed.val, indexType |-> "datetime",
                     columns |-> Without(d.columns, {i})])

\* df.select_dtypes(include=dtypes).columns
select_dtypes(d, dtypes) ==
    {i \in 1..Len(d.columns) : d.columns[i].dtype \in dtypes}

(***************************************************************************)
(* data_loader.load_sales_data                                             *)
(***************************************************************************)
\* os.path.exists
exists(fsys, path) == path \in DOMAIN fsys /\ ~fsys[path].none

\* a reader's result together with the reader that was called
Via(reader, r) == [exc |-> r.exc, msg |-> r.msg, val |-> r.val, reader |-> reader]

\* lines 33-52: the source of the raw table
load_source(file_path, uploaded_file, fsys) ==
    IF ~uploaded_file.none THEN
        LET up == uploaded_file.v IN
        IF EndsWith(up.name, DOT_XLSX) \/ EndsWith(up.name, DOT_XLS)
        THEN Via("read_excel", read_excel(up.file))
        ELSE IF EndsWith(up.name, DOT_CSV)
        THEN Via("read_csv", read_csv(up.file))
        ELSE Via("none", Raise("ValueError", "unsupported_format"))
    ELSE IF ~file_path.none THEN
        IF ~exists(fsys, file_path.v)
        THEN Via("none", Raise("FileNotFoundError", "file_not_found"))
        ELSE Via("read_excel", read_excel(fsys[file_path.v].v))
    ELSE
        IF exists(fsys, DEFAULT_DATA_PATH)
        THEN Via("read_excel", read_excel(fsys[DEFAULT_DATA_PATH].v))
        ELSE Via("none", Raise("FileNotFoundError", "please_upload"))

\* lines 60-62: the name test of the column scan
is_date_name(col) ==
    LET col_lower == Lower(col) IN
    \/ Contains(TOKEN_DATA, col_lower)
    \/ Contains(TOKEN_DATE, col_lower)
    \/ Contains(TOKEN_VREMYA, col_lower)
    \/ col = UNNAMED_0

\* lines 55-76: the date column, by name or else the first column if its
\* leading values parse (the bare except turns any failure into ValueError)
locate_date_column(d) ==
    LET hits == {i \in 1..Len(d.columns) : is_date_name(d.columns[i].name)}
    IN
    IF hits # {}
    THEN Ok(d.columns[CHOOSE i \in hits : \A j \in hits : i <= j].name)
    ELSE IF Len(d.columns) > 0
    THEN IF to_datetime(head(d.columns[1].cells)).exc = "none"
         THEN Ok(d.columns[1].name)
         ELSE Raise("ValueError", "first_column_not_dates")
    ELSE Raise("ValueError", "no_date_column")

\* lines 78-93: rename, convert, index, and the numeric check
normalize(d, date_column) ==
    LET renamed == IF date_column # DEFAULT_DATE_COLUMN_NAME
                   THEN rename(d, date_column, DEFAULT_DATE_COLUMN_NAME) ELSE d
        indexed == convert_and_set_index(renamed, DEFAULT_DATE_COLUMN_NAME)
    IN
    IF indexed.exc # "none" THEN indexed
    ELSE IF select_dtypes(indexed.val, {"int64", "float64"}) = {}
    THEN Raise("ValueError", "no_numeric_data")
    ELSE indexed

\* lines 31-93: the body of the try block
load_body(file_path, uploaded_file, fsys) ==
    LET raw == load_source(file_path, uploaded_file, fsys) IN
    IF raw.exc # "none" THEN raw
    ELSE LET found == locate_date_column(raw.val) IN
         IF found.exc # "none" THEN Via(raw.reader, found)
         ELSE Via(raw.reader, normalize(raw.val, found.val))

\* a handler that names ValueError alone
LoadHandler_ValueErrorOnly == {"ValueError"}

\* line 95: except Exception
LoadHandler == {"Exception"}

\* what a call hands back: the table, the message given to st.error, the
\* reader that was used and whether an exception left the function
Outcome(r, handler) ==
    IF r.exc = "none"
    THEN [raised |-> FALSE, df |-> r.val, msg |-> "none", reader |-> r.reader]
    ELSE IF Catches(handler, r.exc)
    THEN [raised |-> FALSE, df |-> EmptyDF, msg |-> r.msg, reader |-> r.reader]
    ELSE [raised |-> TRUE, df |-> EmptyDF, msg |-> r.msg, reader |-> r.reader]

\* lines 16-97
load_sales_data(file_path, uploaded_file, fsys) ==
    Outcome(load_body(file_path, uploaded_file, fsys), LoadHandler)

(***************************************************************************)
(* data_loader_refactored.load_sales_data                                  *)
(***************************************************************************)
\* lines 24-52
determine_file_type(filename) ==
    LET file_extension == Lower(PathSuffix(filename)) IN
    IF file_extension \in {DOT_XLSX, DOT_XLS} THEN Ok("excel")
    ELSE IF file_extension = DOT_CSV THEN Ok("csv")
    ELSE Raise("ValueError", "unsupported_format")

\* lines 81-99
read_uploaded_file(up) ==
    LET file_type == determine_file_type(up.name) IN
    IF file_type.exc # "none" THEN Via("none", file_type)
    ELSE IF file_type.val = "excel" THEN Via("read_excel", read_excel(up.file))
    ELSE Via("read_csv", read_csv(up.file))

\* lines 102-118
read_local_file(file_path, fsys) ==
    IF ~exists(fsys, file_path)
    THEN Via("none", Raise("FileNotFoundError", "file_not_found"))
    ELSE Via("read_excel", read_excel(fsys[file_path].v))

\* lines 121-136
read_default_file(fsys) ==
    IF exists(fsys, DEFAULT_DATA_PATH)
    THEN Via("read_excel", read_excel(fsys[DEFAULT_DATA_PATH].v))
    ELSE Via("none", Raise("FileNotFoundError", "please_upload"))

\* lines 55-78
load_dataframe_from_source(file_path, uploaded_file, fsys) ==
    IF ~uploaded_file.none THEN read_uploaded_file(uploaded_file.v)
    ELSE IF ~file_path.none THEN read_local_file(file_path.v, fsys)
    ELSE read_default_file(fsys)

\* lines 163-178: except (ValueError, TypeError)
is_valid_date_column(cells) ==
    LET r == to_datetime(head(cells)) IN
    IF r.exc = "none" THEN Ok(TRUE)
    ELSE IF Catches({"ValueError", "TypeError"}, r.exc) THEN Ok(FALSE)
    ELSE r

\* line 152: the name test of the refactored scan
has_indicator(column_name) ==
    LET normalized_name == Lower(column_name) IN
    \E indicator \in DATE_COLUMN_INDICATORS : Contains(indicator, normalized_name)

\* lines 139-160: None when no column qualifies
find_date_column(d) ==
    LET hits == {i \in 1..Len(d.columns) : has_indicator(d.columns[i].name)}
    IN
    IF hits # {}
    THEN Ok(Some(d.columns[CHOOSE i \in hits : \A j \in hits : i <= j].name))
    ELSE IF Len(d.columns) > 0
    THEN LET valid == is_valid_date_column(d.columns[1].cells) IN
         IF valid.exc # "none" THEN valid
         ELSE IF valid.val THEN Ok(Some(d.columns[1].name)) ELSE Ok(None)
    ELSE Ok(None)

\* lines 181-217
normalize_date_column(d, date_column_name) ==
    LET processed == IF date_column_name # DEFAULT_DATE_COLUMN_NAME
                     THEN rename(d, date_column_name, DEFAULT_DATE_COLUMN_NAME)
                     ELSE d
    IN convert_and_set_index(processed, DEFAULT_DATE_COLUMN_NAME)

\* lines 220-232
validate_numeric_columns(d) ==
    IF select_dtypes(d, NUMERIC_DTYPES) = {}
    THEN Raise("ValueError", "no_numeric_data") ELSE Ok(d)

\* lines 235-259
process_sales_dataframe(raw) ==
    LET date_column == find_date_column(raw) IN
    IF date_column.exc # "none" THEN date_column
    ELSE IF date_column.val.none THEN Raise("ValueError", "no_date_column")
    ELSE LET processed == normalize_date_column(raw, date_column.val.v) IN
         IF processed.exc # "none" THEN processed
         ELSE validate_numeric_columns(processed.val)

\* line 307: except Exception
LoadHandlerR == {"Exception"}

\* lines 263-309
load_sales_data_refactored(file_path, uploaded_file, fsys) ==
    LET raw == load_dataframe_from_source(file_path, uploaded_file, fsys) IN
    Outcome(IF raw.exc # "none" THEN raw
            ELSE Via(raw.reader, process_sales_dataframe(raw.val)),
            LoadHandlerR)

(***************************************************************************)
(* Inputs: sheets, file names, requests.                                   *)
(***************************************************************************)
Rows == HeadLen + 1    \* one row more than head() samples

Dates == [i \in 1..Rows |-> DateCell(100 + 2 * i)]
LateBad == [i \in 1..Rows |-> IF i <= HeadLen THEN DateCell(100 + 2 * i) ELSE TextCell]
Texts == [i \in 1..Rows |-> TextCell]
Ints == [i \in 1..Rows |-> IntCell(10 * i)]
Floats == [i \in 1..Rows |-> IF i = 2 THEN NaN ELSE FloatCell(2 * i + 1)]

NAME_DATE == <<"D","a","t","e">>
NAME_UPDATE == <<"u","p","d","a","t","e">>
NAME_DAY == <<"d","a","y">>
NAME_A == <<"A">>
NAME_NOTE == <<"n","o","t","e">>

SampleColumns ==
    { [name |-> DEFAULT_DATE_COLUMN_NAME, cells |-> Dates],
      [name |-> NAME_DATE, cells |-> Dates],
      [name |-> NAME_DATE, cells |-> LateBad],
      [name |-> NAME_UPDATE, cells |-> Ints],
      [name |-> UNNAMED_0, cells |-> Ints],
      [name |-> TOKEN_UNNAMED_0, cells |-> Floats],
      [name |-> NAME_DAY, cells |-> Dates],
      [name |-> NAME_A, cells |-> Floats],
      [name |-> NAME_NOTE, cells |-> Texts] }

\* the readers make column names unique, so sheets have distinct names
DistinctNames(t) == \A i, j \in 1..Len(t) : t[i].name = t[j].name => i = j

HeaderOnly(t) == [i \in 1..Len(t) |-> [name |-> t[i].name, cells |-> <<>>]]

FullSheets ==
    {t \in UNION {[1..n -> SampleColumns] : n \in 0..MaxCols} : DistinctNames(t)}

Sheets == FullSheets \cup {HeaderOnly(t) : t \in {u \in FullSheets : Len(u) = 2}}

FILE_XLSX == <<"d",".","x","l","s","x">>
FILE_XLS == <<"d",".","x","l","s">>
FILE_CSV == <<"d",".","c","s","v">>
FILE_UPPER == <<"D",".","X","L","S","X">>
FILE_TXT == <<"d",".","t","x","t">>

Paths == {FILE_XLSX, FILE_CSV, DEFAULT_DATA_PATH}

Request(file_path, uploaded_file) ==
    [file_path |-> file_path, uploaded_file |-> uploaded_file]

NoFiles == [p \in Paths |-> None]

NoCall == [called |-> FALSE]

\* app.main has not started
NoRun == [pc |-> "idle"]

\* the analysis part at rest
AnalysisIdle == df = EmptyDF /\ res = NoCall /\ run = NoRun

(***************************************************************************)
(* Operations.                                                             *)
(***************************************************************************)
\* a memoisation that stores the tables of successful ingestions only
cache_data_SuccessOnly(memo, key, computed) ==
    IF key \in DOMAIN memo
    THEN [hit |-> TRUE, out |-> memo[key], memo |-> memo]
    ELSE [hit |-> FALSE, out |-> computed,
          memo |-> IF computed.raised \/ computed.df = EmptyDF
                   THEN memo ELSE memo @@ (key :> computed)]

\* st.cache_data: the key is the argument values (a path by its text, an
\* uploaded file by its name and bytes); a stored return value is replayed
cache_data(memo, key, computed) ==
    IF key \in DOMAIN memo
    THEN [hit |-> TRUE, out |-> memo[key], memo |-> memo]
    ELSE [hit |-> FALSE, out |-> computed,
          memo |-> IF computed.raised THEN memo ELSE memo @@ (key :> computed)]

Called(a, c) == [called |-> TRUE, args |-> a, hit |-> c.hit, out |-> c.out]

\* a call of data_loader.load_sales_data
Load ==
    /\ steps < MaxSteps
    /\ \E a \in requests :
        LET c == cache_data(cache, a,
                            load_sales_data(a.file_path, a.uploaded_file, fs))
        IN /\ ret' = Called(a, c)
           /\ cache' = c.memo
    /\ steps' = steps + 1
    /\ UNCHANGED <<run, fs, requests, cacheR, retR, df, res>>

\* a call of data_loader_refactored.load_sales_data
LoadRefactored ==
    /\ steps < MaxSteps
    /\ \E a \in requests :
        LET c == cache_data(cacheR, a,
                            load_sales_data_refactored(a.file_path, a.uploaded_file, fs))
        IN /\ retR' = Called(a, c)
           /\ cacheR' = c.memo
    /\ steps' = steps + 1
    /\ UNCHANGED <<run, fs, requests, cache, ret, df, res>>

\* the environment writes a file behind a path
PutFile ==
    /\ steps < MaxSteps
    /\ \E p \in DOMAIN fs, f \in {r.uploaded_file.v.file :
                                    r \in {q \in requests : ~q.uploaded_file.none}} :
        /\ fs[p] # Some(f)
        /\ fs' = [fs EXCEPT ![p] = Some(f)]
    /\ steps' = steps + 1
    /\ UNCHANGED <<run, requests, cache, cacheR, ret, retR, df, res>>

\* the environment removes the file behind a path
RemoveFile ==
    /\ steps < MaxSteps
    /\ \E p \in DOMAIN fs :
        /\ ~fs[p].none
        /\ fs' = [fs EXCEPT ![p] = None]
    /\ steps' = steps + 1
    /\ UNCHANGED <<run, requests, cache, cacheR, ret, retR, df, res>>

(***************************************************************************)
(* Spec: one ingestion of each loader, over every sheet and source.        *)
(***************************************************************************)
Sources ==
    [kind : {"upload"}, name : {FILE_XLSX, FILE_CSV}, fmt : {"excel", "csv"},
     present : {TRUE}]
    \cup [kind : {"upload"}, name : {FILE_XLS, FILE_UPPER, FILE_TXT},
          fmt : {"excel"}, present : {TRUE}]
    \cup { [kind |-> "path", name |-> FILE_XLSX, fmt |-> "excel", present |-> TRUE],
           [kind |-> "path", name |-> FILE_CSV, fmt |-> "csv", present |-> TRUE],
           [kind |-> "path", name |-> FILE_XLSX, fmt |-> "excel", present |-> FALSE],
           [kind |-> "default", name |-> DEFAULT_DATA_PATH, fmt |-> "excel",
            present |-> TRUE],
           [kind |-> "default", name |-> DEFAULT_DATA_PATH, fmt |-> "excel",
            present |-> FALSE],
           [kind |-> "both", name |-> FILE_XLSX, fmt |-> "excel", present |-> FALSE] }

RequestOf(src, f) ==
    CASE src.kind = "upload" -> Request(None, Some([name |-> src.name, file |-> f]))
      [] src.kind = "path" -> Request(Some(src.name), None)
      [] src.kind = "default" -> Request(None, None)
      [] src.kind = "both" ->
            Request(Some(FILE_CSV), Some([name |-> src.name, file |-> f]))

FilesOf(src, f) ==
    [p \in Paths |-> IF src.present /\ src.kind # "upload" /\ p = src.name
                     THEN Some(f) ELSE None]

Init ==
    /\ \E t \in Sheets, src \in Sources :
        LET f == [fmt |-> src.fmt, table |-> t] IN
        /\ requests = {RequestOf(src, f)}
        /\ fs = FilesOf(src, f)
    /\ cache = <<>>
    /\ cacheR = <<>>
    /\ ret = NoCall
    /\ retR = NoCall
    /\ steps = MaxSteps - 2
    /\ AnalysisIdle

Next == Load \/ LoadRefactored

Spec == Init /\ [][Next]_vars

(***************************************************************************)
(* SpecCache: calls of both loaders interleaved with changes of the files  *)
(* behind the local path and the default path.                             *)
(***************************************************************************)
SheetOne ==
    <<[name |-> DEFAULT_DATE_COLUMN_NAME, cells |-> Dates],
      [name |-> NAME_A, cells |-> Floats]>>
SheetTwo ==
    <<[name |-> NAME_DAY, cells |-> Dates],
      [name |-> NAME_UPDATE, cells |-> Ints]>>

CacheRequests ==
    { Request(None, None),
      Request(Some(FILE_XLSX), None),
      Request(None, Some([name |-> FILE_XLSX, file |-> [fmt |-> "excel", table |-> SheetOne]])),
      Request(None, Some([name |-> FILE_XLSX, file |-> [fmt |-> "excel", table |-> SheetTwo]])) }

InitCache ==
    /\ requests = CacheRequests
    /\ fs = [p \in {FILE_XLSX, DEFAULT_DATA_PATH} |-> None]
    /\ cache = <<>>
    /\ cacheR = <<>>
    /\ ret = NoCall
    /\ retR = NoCall
    /\ steps = 0
    /\ AnalysisIdle

NextCache == Load \/ LoadRefactored \/ PutFile \/ RemoveFile

SpecCache == InitCache /\ [][NextCache]_vars

(***************************************************************************)
(* Numbers of the analysis.                                                *)
(*                                                                         *)
(* A numeric cell counts halves: Val of IntCell(3) is 6, of FloatCell(3)   *)
(* is 3 (1.5).  A float result is an exact fraction Rat(n, d) = n/d, or    *)
(* NaNf.  Floating-point rounding is not modelled.                         *)
(***************************************************************************)
IsNum(c) == c.k \in {"int", "float"}
Val(c) == IF c.k = "int" THEN 2 * c.v ELSE c.v

Rat(n, d) == IF d < 0 THEN [k |-> "rat", n |-> -n, d |-> -d]
             ELSE [k |-> "rat", n |-> n, d |-> d]
NaNf == [k |-> "nan", n |-> 0, d |-> 1]
Zero == Rat(0, 1)

\* comparisons of two fractions; any comparison with NaN is false
RatEq(a, b) == a.k = "rat" /\ b.k = "rat" /\ a.n * b.d = b.n * a.d
RatLt(a, b) == a.k = "rat" /\ b.k = "rat" /\ a.n * b.d < b.n * a.d
RatLe(a, b) == a.k = "rat" /\ b.k = "rat" /\ a.n * b.d <= b.n * a.d

\* a conversion that rounds down instead
TruncHalves_Floor(h) == h \div 2

\* int(x) of a number counted in halves: truncation toward zero
TruncHalves(h) == IF h >= 0 THEN h \div 2 ELSE -((-h) \div 2)

RECURSIVE SumSeq(_)
SumSeq(s) == IF Len(s) = 0 THEN 0 ELSE s[1] + SumSeq(Tail(s))

MaxSeq(s) == CHOOSE x \in {s[i] : i \in 1..Len(s)} : \A i \in 1..Len(s) : s[i] <= x
MinSeq(s) == CHOOSE x \in {s[i] : i \in 1..Len(s)} : \A i \in 1..Len(s) : x <= s[i]

(***************************************************************************)
(* analysis.py                                                             *)
(***************************************************************************)
\* a value that is no DataFrame: any attribute access on it raises
IsTable(d) == "columns" \in DOMAIN d

NumberTypes == {"int64", "float64"}    \* np.number

\* the columns df.select_dtypes(include=[np.number]).columns names
NumericColumns(d) ==
    Without(d.columns, (1..Len(d.columns)) \ select_dtypes(d, NumberTypes))

\* df.sum(axis=1): the row totals, in halves, missing cells skipped.  On a
\* frame with a non-numeric column pandas from 2.0 raises TypeError; older
\* ones drop the non-numeric columns when a numeric one is there
\* (dropsNuisance); totals of text alone fail in the arithmetic that follows
sum_axis1(d, dropsNuisance) ==
    LET cols == NumericColumns(d) IN
    IF Len(cols) < Len(d.columns) /\ ~(dropsNuisance /\ Len(cols) > 0)
    THEN Raise("TypeError", "unsupported_operand")
    ELSE Ok([i \in 1..Len(d.index) |->
              SumSeq([j \in 1..Len(cols) |->
                        IF IsNum(cols[j].cells[i]) THEN Val(cols[j].cells[i]) ELSE 0])])

\* a growth rate measured from the second point on
calculate_growth_rate_FromSecond(series) ==
    IF Len(series) < 2 \/ series[2] = 0 THEN Zero
    ELSE Rat((series[Len(series)] - series[2]) * 100, series[2])

\* lines 87-111; the series counts halves
calculate_growth_rate(series) ==
    IF Len(series) < 2 THEN Zero
    ELSE LET first_value == series[1]
             last_value == series[Len(series)]
         IN IF first_value = 0 THEN Zero
            ELSE Rat((last_value - first_value) * 100, first_value)

\* a fallback that also reports the number of days
KpiEmpty_WithDays ==
    [total_sessions |-> 0, avg_daily_sessions |-> Zero, max_daily_sessions |-> 0,
     days_count |-> 0]

\* lines 62-66
KpiEmpty ==
    [total_sessions |-> 0, avg_daily_sessions |-> Zero, max_daily_sessions |-> 0]

\* lines 71-78
KpiOf(total_sales, n) ==
    [total_sessions |-> TruncHalves(SumSeq(total_sales)),
     avg_daily_sessions |-> Rat(SumSeq(total_sales), 2 * Len(total_sales)),
     max_daily_sessions |-> TruncHalves(MaxSeq(total_sales)),
     min_daily_sessions |-> TruncHalves(MinSeq(total_sales)),
     days_count |-> n,
     growth_rate |-> calculate_growth_rate(total_sales)]

\* lines 60-80: the body of the try block
kpi_body(d, dropsNuisance) ==
    IF ~IsTable(d) THEN Raise("AttributeError", "no_attribute")
    ELSE IF IsEmpty(d) THEN Ok(KpiEmpty)
    ELSE LET total_sales == sum_axis1(d, dropsNuisance) IN
         IF total_sales.exc # "none" THEN total_sales
         ELSE Ok(KpiOf(total_sales.val, Len(d.index)))

\* a handler that catches ValueError only
AnalysisHandler_ValueErrorOnly == {"ValueError"}

\* line 82: except Exception
AnalysisHandler == {"Exception"}

\* the outcome of a guarded analysis function: its value, or `fallback`
\* after st.error when the handler catches
Guarded(r, fallback) ==
    IF r.exc = "none"
    THEN [raised |-> FALSE, msg |-> "none", val |-> r.val]
    ELSE IF Catches(AnalysisHandler, r.exc)
    THEN [raised |-> FALSE, msg |-> r.msg, val |-> fallback]
    ELSE [raised |-> TRUE, msg |-> r.msg, val |-> fallback]

\* lines 50-84
calculate_kpi_metrics(d, dropsNuisance) == Guarded(kpi_body(d, dropsNuisance), <<>>)

\* str(n) of an integer
RECURSIVE DecStr(_)
DecStr(n) ==
    LET digits == <<"0", "1", "2", "3", "4", "5", "6", "7", "8", "9">> IN
    IF n < 0 THEN <<"-">> \o DecStr(-n)
    ELSE IF n < 10 THEN <<digits[n + 1]>>
    ELSE DecStr(n \div 10) \o <<digits[(n % 10) + 1]>>

\* f"{column}_MA{window}"
MAName(column, window) == column \o <<"_", "M", "A">> \o DecStr(window)

\* a rolling mean that also averages the windows that are not full
rolling_mean_MinPeriodsOne(col, window) ==
    IF window < 0 THEN Raise("ValueError", "window_must_be_non_negative")
    ELSE IF col.dtype \notin NumberTypes THEN Raise("DataError", "no_numeric_types")
    ELSE Ok([i \in 1..Len(col.cells) |->
              IF window >= 1 /\ \A j \in 1..i : j > i - window => IsNum(col.cells[j])
              THEN [k |-> "mean",
                    v |-> SumSeq([j \in 1..i |->
                                    IF j > i - window THEN Val(col.cells[j]) ELSE 0]),
                    w |-> IF i < window THEN i ELSE window]
              ELSE NaN])

\* Series.rolling(window=window).mean(): a cell is the sum of its window,
\* in halves, over the window's length w; a window that is not full, or
\* that holds a missing value, gives NaN; a negative window raises, text
\* cannot be rolled
rolling_mean(col, window) ==
    IF window < 0 THEN Raise("ValueError", "window_must_be_non_negative")
    ELSE IF col.dtype \notin NumberTypes THEN Raise("DataError", "no_numeric_types")
    ELSE Ok([i \in 1..Len(col.cells) |->
              IF window >= 1 /\ i >= window
                 /\ \A j \in (i - window + 1)..i : IsNum(col.cells[j])
              THEN [k |-> "mean",
                    v |-> SumSeq([j \in 1..window |-> Val(col.cells[i - window + j])]),
                    w |-> window]
              ELSE NaN])

\* result[name] = cells: an existing column of that name is overwritten
setitem(d, name, cells) ==
    LET new == [name |-> name, dtype |-> "float64", cells |-> cells] IN
    IF Named(d, name) = {} THEN [d EXCEPT !.columns = Append(d.columns, new)]
    ELSE [d EXCEPT !.columns = [i \in 1..Len(d.columns) |->
            IF d.columns[i].name = name THEN new ELSE d.columns[i]]]

\* lines 141-142: the loop over the columns `cols` of df, from the k-th on
RECURSIVE add_moving_averages(_, _, _, _, _)
add_moving_averages(result, d, cols, k, window) ==
    IF k > Len(cols) THEN Ok(result)
    ELSE LET rolled == rolling_mean(cols[k], window) IN
         IF rolled.exc # "none" THEN rolled
         ELSE add_moving_averages(
                 setitem(result, MAName(cols[k].name, window), rolled.val),
                 d, cols, k + 1, window)

\* a copy that is the caller's own table under another name
df_copy_Shared(d) == [shared |-> TRUE, frame |-> d]

\* lines 133 and 138: df.copy(), a table of its own with the same contents
df_copy(d) == [shared |-> FALSE, frame |-> d]

\* lines 129-144: the body of the try block; column is None or Some(name)
moving_average_body(d, window, column) ==
    IF ~IsTable(d) THEN Raise("AttributeError", "no_attribute")
    ELSE IF IsEmpty(d) THEN Ok(EmptyDF)
    ELSE IF ~column.none /\ Len(column.v) > 0 /\ Named(d, column.v) # {}
    THEN add_moving_averages(df_copy(d).frame, d,
            Without(d.columns, (1..Len(d.columns)) \ Named(d, column.v)), 1, window)
    ELSE add_moving_averages(df_copy(d).frame, d, NumericColumns(d), 1, window)

\* lines 114-148: on a failure the function hands back its argument
calculate_moving_average(d, window, column) ==
    Guarded(moving_average_body(d, window, column), d)

(***************************************************************************)
(* analysis.calculate_basic_statistics                                     *)
(*                                                                         *)
(* A dict is the sequence of its [key, value] entries in insertion order.  *)
(***************************************************************************)
EmptyDict == <<>>

\* the square root of n/d
Sqrt(n, d) == [k |-> "sqrt", n |-> n, d |-> d]

\* the numbers of a column with its missing values counted as zeros
Numbers_ZeroFilled(col) ==
    [i \in 1..Len(col.cells) |-> IF IsNum(col.cells[i]) THEN Val(col.cells[i]) ELSE 0]

\* the numbers of a column, in halves, missing values skipped
Numbers(col) ==
    LET cells == Without(col.cells, {i \in 1..Len(col.cells) : ~IsNum(col.cells[i])})
    IN [i \in 1..Len(cells) |-> Val(cells[i])]

\* the k-th smallest member of xs
Kth(xs, k) ==
    CHOOSE x \in {xs[i] : i \in 1..Len(xs)} :
        /\ Cardinality({i \in 1..Len(xs) : xs[i] < x}) < k
        /\ Cardinality({i \in 1..Len(xs) : xs[i] <= x}) >= k

\* n times the sum of the squared deviations from the mean of xs
SquaredDeviations(xs) ==
    SumSeq([i \in 1..Len(xs) |->
              (Len(xs) * xs[i] - SumSeq(xs)) * (Len(xs) * xs[i] - SumSeq(xs))])

\* lines 33-41: Series.mean, median, std (ddof = 1), min, max, sum and
\* count of the numbers of a column
StatisticsOf(col) ==
    LET xs == Numbers(col)
        n == Len(xs)
    IN [mean |-> IF n = 0 THEN NaNf ELSE Rat(SumSeq(xs), 2 * n),
        median |-> IF n = 0 THEN NaNf
                   ELSE IF n % 2 = 1 THEN Rat(Kth(xs, (n + 1) \div 2), 2)
                   ELSE Rat(Kth(xs, n \div 2) + Kth(xs, n \div 2 + 1), 4),
        std |-> IF n < 2 THEN NaNf
                ELSE Sqrt(SquaredDeviations(xs), 4 * n * n * (n - 1)),
        min |-> IF n = 0 THEN NaNf ELSE Rat(MinSeq(xs), 2),
        max |-> IF n = 0 THEN NaNf ELSE Rat(MaxSeq(xs), 2),
        sum |-> Rat(SumSeq(xs), 2),
        count |-> n]

\* lines 26-43: the body of the try block
basic_statistics_body(d) ==
    IF ~IsTable(d) THEN Raise("AttributeError", "no_attribute")
    ELSE IF IsEmpty(d) THEN Ok(EmptyDict)
    ELSE LET numeric_columns == NumericColumns(d)
         IN Ok([i \in 1..Len(numeric_columns) |->
                  [key |-> numeric_columns[i].name,
                   value |-> StatisticsOf(numeric_columns[i])]])

\* lines 15-47
calculate_basic_statistics(d) == Guarded(basic_statistics_body(d), EmptyDict)

\* a z-score test that flags only the values above the mean
zscore_above_Signed(x, xs, threshold) ==
    /\ Len(xs) >= 2
    /\ SquaredDeviations(xs) > 0
    /\ Len(xs) * x - SumSeq(xs) > 0
    /\ 4 * (Len(xs) - 1) * (Len(xs) * x - SumSeq(xs)) * (Len(xs) * x - SumSeq(xs))
         > threshold * threshold * SquaredDeviations(xs)

(***************************************************************************)
(* analysis.detect_anomalies                                               *)
(***************************************************************************)
\* lines 177-178: |x - mean| / std > threshold, for the number x of a column
\* whose numbers are xs; a division by a zero or missing std compares false
zscore_above(x, xs, threshold) ==
    /\ Len(xs) >= 2
    /\ SquaredDeviations(xs) > 0
    /\ \/ threshold < 0
       \/ 4 * (Len(xs) - 1) * (Len(xs) * x - SumSeq(xs)) * (Len(xs) * x - SumSeq(xs))
            > threshold * threshold * SquaredDeviations(xs)

\* four times Series.quantile(num / 4) of xs, by linear interpolation
Quantile4(xs, num) ==
    LET pos == num * (Len(xs) - 1)
        lo == Kth(xs, pos \div 4 + 1)
        hi == Kth(xs, IF pos % 4 = 0 THEN pos \div 4 + 1 ELSE pos \div 4 + 2)
    IN 4 * lo + (pos % 4) * (hi - lo)

\* lines 181-186: x outside [Q1 - threshold * IQR, Q3 + threshold * IQR]
iqr_outside(x, xs, threshold) ==
    /\ Len(xs) >= 1
    /\ LET Q1 == Quantile4(xs, 1)
           Q3 == Quantile4(xs, 3)
           IQR == Q3 - Q1
       IN \/ 8 * x < 2 * Q1 - threshold * IQR
          \/ 8 * x > 2 * Q3 + threshold * IQR

\* lines 174-197 for one column: the (date, value) pairs of its anomalies
column_anomalies(d, col, threshold, method) ==
    LET xs == Numbers(col)
        flagged(c) == /\ IsNum(c)
                      /\ IF method = "zscore" THEN zscore_above(Val(c), xs, threshold)
                         ELSE iqr_outside(Val(c), xs, threshold)
        rows == Without([i \in 1..Len(col.cells) |-> i],
                        {i \in 1..Len(col.cells) : ~flagged(col.cells[i])})
    IN [m \in 1..Len(rows) |->
          [date |-> d.index[rows[m]], value |-> Rat(Val(col.cells[rows[m]]), 2)]]

\* methods that would also take "mad" for a rule
KnownMethods_WithMad == {"zscore", "iqr", "mad"}

\* lines 176 and 180: the methods that have a rule
KnownMethods == {"zscore", "iqr"}

\* lines 166-199: the body of the try block; the threshold is a float cell,
\* or a text, which cannot be compared; a method that is neither "zscore"
\* nor "iqr" skips every column
detect_anomalies_body(d, threshold, method) ==
    IF ~IsTable(d) THEN Raise("AttributeError", "no_attribute")
    ELSE IF IsEmpty(d) THEN Ok(EmptyDict)
    ELSE LET numeric_columns == NumericColumns(d)
         IN IF method \notin KnownMethods \/ Len(numeric_columns) = 0
            THEN Ok(EmptyDict)
            ELSE IF threshold.k # "float"
            THEN Raise("TypeError", "unsupported_operand")
            ELSE Ok([i \in 1..Len(numeric_columns) |->
                      [key |-> numeric_columns[i].name,
                       value |-> column_anomalies(d, numeric_columns[i],
                                                  threshold.v, method)]])

\* lines 151-202
detect_anomalies(d, threshold, method) ==
    Guarded(detect_anomalies_body(d, threshold, method), EmptyDict)

(***************************************************************************)
(* analysis.calculate_correlation_matrix                                   *)
(***************************************************************************)
\* Pearson's r between two columns over the rows where both hold a number:
\* its sign and its square n/d; NaN with fewer than two such rows or with a
\* constant column
CorrCell(sign, n, d) == [k |-> "corr", sign |-> sign, n |-> n, d |-> d]

corr(x, y) ==
    LET rows == Without([i \in 1..Len(x.cells) |-> i],
                        {i \in 1..Len(x.cells) :
                            ~(IsNum(x.cells[i]) /\ IsNum(y.cells[i]))})
        n == Len(rows)
        xs == [m \in 1..n |-> Val(x.cells[rows[m]])]
        ys == [m \in 1..n |-> Val(y.cells[rows[m]])]
        cov == n * SumSeq([m \in 1..n |-> xs[m] * ys[m]]) - SumSeq(xs) * SumSeq(ys)
    IN IF n < 2 \/ SquaredDeviations(xs) = 0 \/ SquaredDeviations(ys) = 0 THEN NaN
       ELSE CorrCell(IF cov > 0 THEN 1 ELSE IF cov < 0 THEN -1 ELSE 0,
                     cov * cov * n * n,
                     SquaredDeviations(xs) * SquaredDeviations(ys))

\* lines 259-265: the body of the try block
correlation_body(d) ==
    IF ~IsTable(d) THEN Raise("AttributeError", "no_attribute")
    ELSE IF IsEmpty(d) THEN Ok(EmptyDF)
    ELSE LET cols == NumericColumns(d)
         IN Ok([index |-> [i \in 1..Len(cols) |-> [k |-> "label", v |-> cols[i].name]],
                indexType |-> "labels",
                columns |-> [j \in 1..Len(cols) |->
                    [name |-> cols[j].name, dtype |-> "float64",
                     cells |-> [i \in 1..Len(cols) |-> corr(cols[i], cols[j])]]]])

\* lines 248-269
calculate_correlation_matrix(d) == Guarded(correlation_body(d), EmptyDF)

(***************************************************************************)
(* analysis.generate_insights                                              *)
(***************************************************************************)
\* a message of the list: its kind and the values formatted into it
Insight(kind, product, value, month) ==
    [kind |-> kind, product |-> product, value |-> value, month |-> month]
INSUFFICIENT_DATA_Silent == <<>>
INSUFFICIENT_DATA == <<Insight("insufficient_data", <<>>, Zero, 0)>>
ANALYSIS_ERROR == <<Insight("analysis_error", <<>>, Zero, 0)>>

SeasonMinRows == 12

\* the month of an instant; tick 0 is midnight of January 1 and a year has
\* 365 days
MonthStarts == <<0, 31, 59, 90, 120, 151, 181, 212, 243, 273, 304, 334>>
MonthOf(t) ==
    Cardinality({m \in 1..Len(MonthStarts) : MonthStarts[m] <= (t \div 2) % 365})

\* the sum of a sequence of fractions
RECURSIVE RatSum(_)
RatSum(s) ==
    IF Len(s) = 0 THEN Zero
    ELSE LET rest == RatSum(Tail(s))
         IN Rat(s[1].n * rest.d + rest.n * s[1].d, s[1].d * rest.d)

\* a growth step that reports every change above ten percent as positive
growth_insights_Unsigned(total_sales) ==
    IF Len(total_sales) < 2 THEN <<>>
    ELSE LET growth_rate == calculate_growth_rate(total_sales) IN
         IF RatLt(Rat(10, 1), growth_rate) \/ RatLt(growth_rate, Rat(-10, 1))
         THEN <<Insight("growth_positive", <<>>, growth_rate, 0)>>
         ELSE <<>>

\* lines 290-300
growth_insights(total_sales) ==
    IF Len(total_sales) < 2 THEN <<>>
    ELSE LET growth_rate == calculate_growth_rate(total_sales) IN
         IF RatLt(Rat(10, 1), growth_rate)
         THEN <<Insight("growth_positive", <<>>, growth_rate, 0)>>
         ELSE IF RatLt(growth_rate, Rat(-10, 1))
         THEN <<Insight("growth_negative", <<>>, Rat(-growth_rate.n, growth_rate.d), 0)>>
         ELSE <<>>

\* a leader step that reports nothing
leader_insights_Silent(statistics) == <<>>

\* lines 303-310: max() keeps the first of the products with the top sum
leader_insights(statistics) ==
    LET best == CHOOSE i \in 1..Len(statistics) :
                  /\ \A j \in 1..Len(statistics) :
                        RatLe(statistics[j].value.sum, statistics[i].value.sum)
                  /\ \A j \in 1..(i - 1) :
                        RatLt(statistics[j].value.sum, statistics[i].value.sum)
    IN <<Insight("leader", statistics[best].key, statistics[best].value.sum, 0)>>

\* line 314: std / mean > 0.5 when mean > 0
HighVolatility(st) ==
    /\ st.mean.k = "rat" /\ st.mean.n > 0
    /\ st.std.k = "sqrt"
    /\ 4 * st.std.n * st.mean.d * st.mean.d > st.mean.n * st.mean.n * st.std.d

\* lines 313-318
volatility_insights(statistics) ==
    LET volatile == Without(statistics, {i \in 1..Len(statistics) :
                                           ~HighVolatility(statistics[i].value)})
    IN [i \in 1..Len(volatile) |->
          Insight("volatile", volatile[i].key,
                  Sqrt(volatile[i].value.std.n
                         * volatile[i].value.mean.d * volatile[i].value.mean.d,
                       volatile[i].value.std.d
                         * volatile[i].value.mean.n * volatile[i].value.mean.n),
                  0)]

\* line 322: df.groupby(df.index.month).mean().sum(axis=1) at month m, the
\* columns without a number in that month skipped
monthly_avg(d, m) ==
    LET cols == NumericColumns(d)
        rows == {i \in 1..Len(d.index) : d.index[i].k = "ts" /\ MonthOf(d.index[i].v) = m}
        total(c) == SumSeq([i \in 1..Len(c.cells) |->
                              IF i \in rows /\ IsNum(c.cells[i])
                              THEN Val(c.cells[i]) ELSE 0])
        count(c) == Cardinality({i \in rows : IsNum(c.cells[i])})
    IN RatSum([j \in 1..Len(cols) |->
                 IF count(cols[j]) = 0 THEN Zero
                 ELSE Rat(total(cols[j]), 2 * count(cols[j]))])

\* lines 321-339: idxmax gives the first of the months with the top average
season_insights(d) ==
    IF Len(d.index) < SeasonMinRows THEN Ok(<<>>)
    ELSE IF d.indexType # "datetime" THEN Raise("AttributeError", "no_attribute")
    ELSE LET months == {MonthOf(d.index[i].v) :
                          i \in {j \in 1..Len(d.index) : d.index[j].k = "ts"}}
         IN IF months = {} THEN Raise("ValueError", "empty_sequence")
            ELSE LET peak_month ==
                        CHOOSE m \in months :
                          /\ \A o \in months : RatLe(monthly_avg(d, o), monthly_avg(d, m))
                          /\ \A o \in months :
                                o < m => RatLt(monthly_avg(d, o), monthly_avg(d, m))
                 IN Ok(<<Insight("peak_month", <<>>, Zero, peak_month)>>)

\* stats["sum"], stats["mean"] and, when the mean is above zero,
\* stats["std"] are read
MissingKey(st) ==
    \/ "sum" \notin DOMAIN st
    \/ "mean" \notin DOMAIN st
    \/ st.mean.k = "rat" /\ st.mean.n > 0 /\ "std" \notin DOMAIN st

\* a pipeline that reports the leader before the growth
insights_body_LeaderFirst(d, statistics, dropsNuisance) ==
    IF ~IsTable(d) THEN Raise("AttributeError", "no_attribute")
    ELSE IF IsEmpty(d) \/ Len(statistics) = 0 THEN Ok(INSUFFICIENT_DATA)
    ELSE LET total_sales == sum_axis1(d, dropsNuisance)
             season == season_insights(d)
         IN IF total_sales.exc # "none" THEN total_sales
            ELSE IF \E i \in 1..Len(statistics) : MissingKey(statistics[i].value)
            THEN Raise("KeyError", "missing_key")
            ELSE IF season.exc # "none" THEN season
            ELSE Ok(leader_insights(statistics)
                      \o growth_insights(total_sales.val)
                      \o volatility_insights(statistics)
                      \o season.val)

\* lines 284-341: the body of the try block
insights_body(d, statistics, dropsNuisance) ==
    IF ~IsTable(d) THEN Raise("AttributeError", "no_attribute")
    ELSE IF IsEmpty(d) \/ Len(statistics) = 0 THEN Ok(INSUFFICIENT_DATA)
    ELSE LET total_sales == sum_axis1(d, dropsNuisance)
             season == season_insights(d)
         IN IF total_sales.exc # "none" THEN total_sales
            ELSE IF \E i \in 1..Len(statistics) : MissingKey(statistics[i].value)
            THEN Raise("KeyError", "missing_key")
            ELSE IF season.exc # "none" THEN season
            ELSE Ok(growth_insights(total_sales.val)
                      \o leader_insights(statistics)
                      \o volatility_insights(statistics)
                      \o season.val)

\* lines 272-345
generate_insights(d, statistics, dropsNuisance) ==
    Guarded(insights_body(d, statistics, dropsNuisance), ANALYSIS_ERROR)

(***************************************************************************)
(* data_loader.filter_data_by_date                                         *)
(***************************************************************************)
\* a calendar day given by the caller
DateArg(day) == [k |-> "day", v |-> day]

\* pd.Timestamp(x): midnight of a calendar day; a text that is no date raises
pd_Timestamp(x) ==
    IF x.k = "day" THEN Ok(2 * x.v) ELSE Raise("ValueError", "unparseable_dates")

\* df[mask]: the rows at the positions in rows
TakeRows(d, rows) ==
    LET pick == Without([i \in 1..Len(d.index) |-> i],
                        {i \in 1..Len(d.index) : i \notin rows})
    IN [d EXCEPT !.index = [m \in 1..Len(pick) |-> d.index[pick[m]]],
                 !.columns = [j \in 1..Len(d.columns) |->
                     [d.columns[j] EXCEPT !.cells =
                         [m \in 1..Len(pick) |-> d.columns[j].cells[pick[m]]]]]]

\* lines 116-123: the body of the try block; an index that holds no
\* instants cannot be compared with one
filter_body(d, start_date, end_date) ==
    LET start == pd_Timestamp(start_date)
        end == pd_Timestamp(end_date)
    IN IF start.exc # "none" THEN start
       ELSE IF end.exc # "none" THEN end
       ELSE IF ~IsTable(d) THEN Raise("AttributeError", "no_attribute")
       ELSE IF d.indexType # "datetime" /\ Len(d.index) > 0
       THEN Raise("TypeError", "invalid_comparison")
       ELSE Ok(TakeRows(d, {i \in 1..Len(d.index) :
                              /\ d.index[i].k = "ts"
                              /\ d.index[i].v >= start.val
                              /\ d.index[i].v <= end.val}))

\* lines 100-128
filter_data_by_date(d, start_date, end_date) ==
    Guarded(filter_body(d, start_date, end_date), EmptyDF)

(***************************************************************************)
(* data_loader.get_date_range                                              *)
(***************************************************************************)
\* lines 141-155: the calendar days of the earliest and the latest instant of
\* the index; the empty table, and an index whose minimum has no .date(),
\* give today twice
get_date_range(d, today) ==
    LET instants == IF IsTable(d) /\ d.indexType = "datetime"
                    THEN {d.index[i].v : i \in {j \in 1..Len(d.index) : d.index[j].k = "ts"}}
                    ELSE {}
    IN IF ~IsTable(d) \/ IsEmpty(d) \/ instants = {}
       THEN [min_date |-> DateArg(today), max_date |-> DateArg(today)]
       ELSE [min_date |-> DateArg((CHOOSE t \in instants : \A o \in instants : t <= o) \div 2),
             max_date |-> DateArg((CHOOSE t \in instants : \A o \in instants : o <= t) \div 2)]

(***************************************************************************)
(* data_loader.validate_file_format                                        *)
(***************************************************************************)
\* an entry of errors or warnings: its kind and the columns it names
Message(kind, columns) == [kind |-> kind, columns |-> columns]

\* lines 244-252: the names the loop collects; the test col == first_col
\* puts the first column in whatever its name
date_columns(d) ==
    {d.columns[j].name : j \in {i \in 1..Len(d.columns) :
        is_date_name(d.columns[i].name) \/ d.columns[i].name = d.columns[1].name}}

\* a validation that takes the table with a single numeric column for invalid
validation_body_WarningsBlock(d) ==
    LET first_col == d.columns[1]
        parses(cells) == to_datetime(cells).exc = "none"
        found == date_columns(d)
                   \cup (IF first_col.name \notin date_columns(d)
                            /\ parses(head(first_col.cells))
                         THEN {first_col.name} ELSE {})
        numeric_columns == NumericColumns(d)
        negative == Without(numeric_columns,
                      {j \in 1..Len(numeric_columns) :
                         \A i \in 1..Len(d.index) :
                            ~(IsNum(numeric_columns[j].cells[i])
                                /\ Val(numeric_columns[j].cells[i]) < 0)})
        missing == Without(d.columns,
                      {j \in 1..Len(d.columns) :
                         \A i \in 1..Len(d.index) : d.columns[j].cells[i].k \notin {"nan", "nat"}})
    IN [is_valid |-> found # {} /\ Len(numeric_columns) > 1,
        errors |->
            (IF found = {} THEN <<Message("no_date_column", <<>>)>> ELSE <<>>)
            \o (IF Len(numeric_columns) = 0
                THEN <<Message("no_numeric_columns", <<>>)>> ELSE <<>>),
        warnings |->
            (IF found # {} /\ ~parses(first_col.cells)
             THEN <<Message("first_column_bad_dates", <<first_col.name>>)>> ELSE <<>>)
            \o (IF Len(numeric_columns) = 1
                THEN <<Message("single_numeric_column", <<>>)>> ELSE <<>>)
            \o (IF ~parses(head(first_col.cells)) /\ first_col.name \notin found
                THEN <<Message("first_column_not_date", <<first_col.name>>)>> ELSE <<>>)
            \o [j \in 1..Len(negative) |->
                  Message("negative_values", <<negative[j].name>>)]
            \o (IF Len(missing) > 0
                THEN <<Message("missing_values",
                               [j \in 1..Len(missing) |-> missing[j].name])>>
                ELSE <<>>),
        suggestions |-> <<"first_column_dates", "numeric_columns_sales", "clear_names">>]

\* lines 235-300: the body of the try block past the empty-table test
validation_body(d) ==
    LET first_col == d.columns[1]
        parses(cells) == to_datetime(cells).exc = "none"
        found == date_columns(d)
                   \cup (IF first_col.name \notin date_columns(d)
                            /\ parses(head(first_col.cells))
                         THEN {first_col.name} ELSE {})
        numeric_columns == NumericColumns(d)
        negative == Without(numeric_columns,
                      {j \in 1..Len(numeric_columns) :
                         \A i \in 1..Len(d.index) :
                            ~(IsNum(numeric_columns[j].cells[i])
                                /\ Val(numeric_columns[j].cells[i]) < 0)})
        missing == Without(d.columns,
                      {j \in 1..Len(d.columns) :
                         \A i \in 1..Len(d.index) : d.columns[j].cells[i].k \notin {"nan", "nat"}})
    IN [is_valid |-> found # {} /\ Len(numeric_columns) > 0,
        errors |->
            (IF found = {} THEN <<Message("no_date_column", <<>>)>> ELSE <<>>)
            \o (IF Len(numeric_columns) = 0
                THEN <<Message("no_numeric_columns", <<>>)>> ELSE <<>>),
        warnings |->
            (IF found # {} /\ ~parses(first_col.cells)
             THEN <<Message("first_column_bad_dates", <<first_col.name>>)>> ELSE <<>>)
            \o (IF Len(numeric_columns) = 1
                THEN <<Message("single_numeric_column", <<>>)>> ELSE <<>>)
            \o (IF ~parses(head(first_col.cells)) /\ first_col.name \notin found
                THEN <<Message("first_column_not_date", <<first_col.name>>)>> ELSE <<>>)
            \o [j \in 1..Len(negative) |->
                  Message("negative_values", <<negative[j].name>>)]
            \o (IF Len(missing) > 0
                THEN <<Message("missing_values",
                               [j \in 1..Len(missing) |-> missing[j].name])>>
                ELSE <<>>),
        suggestions |-> <<"first_column_dates", "numeric_columns_sales", "clear_names">>]

\* lines 217-311: a value that is no table makes df.empty raise, and the
\* handler reports the exception as an error
validate_file_format(d) ==
    IF ~IsTable(d)
    THEN [is_valid |-> FALSE, errors |-> <<Message("validation_error", <<>>)>>,
          warnings |-> <<>>, suggestions |-> <<>>]
    ELSE IF IsEmpty(d)
    THEN [is_valid |-> FALSE, errors |-> <<Message("empty_file", <<>>)>>,
          warnings |-> <<>>, suggestions |-> <<>>]
    ELSE validation_body(d)

(***************************************************************************)
(* SpecA: one call of an analysis function on a table.                     *)
(***************************************************************************)
NAME_B == <<"B">>

\* the instants of n consecutive days at midnight; a day is two ticks
DailyIndex(n) == [i \in 1..n |-> Timestamp(2 * (i - 1))]

\* the columns of n cells: integers, floats with missing values, or text
AColumns(name, n) ==
    {[name |-> name, dtype |-> "int64", cells |-> c] :
        c \in [1..n -> {IntCell(-1), IntCell(0), IntCell(2)}]}
    \cup {[name |-> name, dtype |-> "float64", cells |-> c] :
            c \in [1..n -> {NaN, FloatCell(1), FloatCell(-3)}]}
    \cup {[name |-> name, dtype |-> "object", cells |-> [i \in 1..n |-> TextCell]]}

\* date-indexed tables of n rows with the column A or the columns A and B
ATables(n) ==
    {[index |-> DailyIndex(n), indexType |-> "datetime", columns |-> <<a>>] :
        a \in AColumns(NAME_A, n)}
    \cup {[index |-> DailyIndex(n), indexType |-> "datetime", columns |-> <<a, b>>] :
            a \in AColumns(NAME_A, n), b \in AColumns(NAME_B, n)}

\* tables of SeasonMinRows rows: one row a month, one row a day, or rows
\* without dates; the column A is 0 but for a 2 in the row `peak`
LongTables ==
    {[index |-> ix.index, indexType |-> ix.indexType,
      columns |-> <<[name |-> NAME_A, dtype |-> "int64",
                     cells |-> [i \in 1..SeasonMinRows |->
                                  IntCell(IF i = peak THEN 2 ELSE 0)]]>>] :
        ix \in {[index |-> [i \in 1..SeasonMinRows |-> Timestamp(2 * MonthStarts[i])],
                 indexType |-> "datetime"],
                [index |-> DailyIndex(SeasonMinRows), indexType |-> "datetime"],
                [index |-> RangeIndex(SeasonMinRows), indexType |-> "range"]},
        peak \in {0, 1, 3, SeasonMinRows}}

\* one-row tables that hold, beside A, a column named like the moving
\* average of A over two rows
SmoothedTables ==
    {[index |-> DailyIndex(1), indexType |-> "datetime", columns |-> <<a, b>>] :
        a \in AColumns(NAME_A, 1), b \in AColumns(MAName(NAME_A, 2), 1)}

\* tables of SeasonMinRows rows with two rows in January, the second one
\* possibly without a value, and one row in each of the ten months after
GappedTables ==
    {[index |-> [i \in 1..SeasonMinRows |->
                   Timestamp(IF i <= 2 THEN 2 * (i - 1) ELSE 2 * MonthStarts[i - 1])],
      indexType |-> "datetime",
      columns |-> <<[name |-> NAME_A, dtype |-> "float64",
                     cells |-> [i \in 1..SeasonMinRows |->
                                  IF i = 1 THEN FloatCell(4)
                                  ELSE IF i = 2 THEN second
                                  ELSE IF i = 3 THEN FloatCell(3)
                                  ELSE FloatCell(0)]]>>] :
        second \in {NaN, FloatCell(0), FloatCell(4)}}

\* date-indexed tables of one to MaxARows rows whose instants are the noons
\* of consecutive days
NoonTables ==
    {[index |-> [i \in 1..n |-> Timestamp(2 * (i - 1) + 1)],
      indexType |-> "datetime",
      columns |-> <<[name |-> NAME_A, dtype |-> "int64",
                     cells |-> [i \in 1..n |-> IntCell(2)]]>>] : n \in 1..MaxARows}

\* what a caller can hand over as df: None, the empty table, a table that
\* was never given a date index, or a date-indexed table
AnalysisInputs ==
    {None, EmptyDF,
     [index |-> RangeIndex(1), indexType |-> "range",
      columns |-> <<[name |-> NAME_A, dtype |-> "int64", cells |-> <<IntCell(2)>>]>>]}
    \cup LongTables \cup GappedTables \cup NoonTables \cup SmoothedTables \cup UNION {ATables(n) : n \in 0..MaxARows}

CalledA(fn, a, o) == [called |-> TRUE, fn |-> fn, args |-> a, out |-> o]

\* a call of analysis.calculate_kpi_metrics
CalculateKpiMetrics ==
    /\ steps < MaxSteps
    /\ requests = {}
    /\ \E dropsNuisance \in BOOLEAN :
        res' = CalledA("calculate_kpi_metrics", [df |-> df],
                       calculate_kpi_metrics(df, dropsNuisance))
    /\ steps' = steps + 1
    /\ UNCHANGED <<run, fs, requests, cache, cacheR, ret, retR, df>>

\* a call of analysis._calculate_growth_rate on the daily totals of the table
CalculateGrowthRate ==
    /\ steps < MaxSteps
    /\ requests = {}
    /\ IsTable(df)
    /\ \E dropsNuisance \in BOOLEAN :
        LET total_sales == sum_axis1(df, dropsNuisance) IN
        /\ total_sales.exc = "none"
        /\ res' = CalledA("_calculate_growth_rate", [series |-> total_sales.val],
                          [raised |-> FALSE, msg |-> "none",
                           val |-> calculate_growth_rate(total_sales.val)])
    /\ steps' = steps + 1
    /\ UNCHANGED <<run, fs, requests, cache, cacheR, ret, retR, df>>

\* a call of data_loader.validate_file_format
ValidateFileFormat ==
    /\ steps < MaxSteps
    /\ requests = {}
    /\ res' = CalledA("validate_file_format", [df |-> df],
                      [raised |-> FALSE, msg |-> "none", val |-> validate_file_format(df)])
    /\ steps' = steps + 1
    /\ UNCHANGED <<run, fs, requests, cache, cacheR, ret, retR, df>>

\* a call of analysis.calculate_basic_statistics
CalculateBasicStatistics ==
    /\ steps < MaxSteps
    /\ requests = {}
    /\ res' = CalledA("calculate_basic_statistics", [df |-> df],
                      calculate_basic_statistics(df))
    /\ steps' = steps + 1
    /\ UNCHANGED <<run, fs, requests, cache, cacheR, ret, retR, df>>

\* a call of analysis.calculate_moving_average; the columns are assigned
\* to `result`, which the caller's table sees only if the two are one object
CalculateMovingAverage ==
    /\ steps < MaxSteps
    /\ requests = {}
    /\ \E window \in {-1, 0, 1, 2},
          column \in {None, Some(<<>>), Some(NAME_A), Some(NAME_B)} :
        LET body == moving_average_body(df, window, column) IN
        /\ res' = CalledA("calculate_moving_average",
                          [df |-> df, window |-> window, column |-> column],
                          calculate_moving_average(df, window, column))
        /\ df' = IF IsTable(df) /\ ~IsEmpty(df) /\ df_copy(df).shared
                    /\ body.exc = "none"
                 THEN body.val ELSE df
    /\ steps' = steps + 1
    /\ UNCHANGED <<run, fs, requests, cache, cacheR, ret, retR>>

\* a call of analysis.detect_anomalies
DetectAnomalies ==
    /\ steps < MaxSteps
    /\ requests = {}
    /\ \E threshold \in {FloatCell(1), FloatCell(4), TextCell},
          method \in {"zscore", "iqr", "mad"} :
        res' = CalledA("detect_anomalies",
                       [df |-> df, threshold |-> threshold, method |-> method],
                       detect_anomalies(df, threshold, method))
    /\ steps' = steps + 1
    /\ UNCHANGED <<run, fs, requests, cache, cacheR, ret, retR, df>>

\* a call of analysis.calculate_correlation_matrix
CalculateCorrelationMatrix ==
    /\ steps < MaxSteps
    /\ requests = {}
    /\ res' = CalledA("calculate_correlation_matrix", [df |-> df],
                      calculate_correlation_matrix(df))
    /\ steps' = steps + 1
    /\ UNCHANGED <<run, fs, requests, cache, cacheR, ret, retR, df>>

\* a call of analysis.generate_insights, with the statistics of the table,
\* with none, or with an entry that lacks the keys the insights read
GenerateInsights ==
    /\ steps < MaxSteps
    /\ requests = {}
    /\ \E dropsNuisance \in BOOLEAN,
          statistics \in {calculate_basic_statistics(df).val, EmptyDict,
                          <<[key |-> NAME_A, value |-> [count |-> 1]]>>} :
        res' = CalledA("generate_insights", [df |-> df, statistics |-> statistics],
                       generate_insights(df, statistics, dropsNuisance))
    /\ steps' = steps + 1
    /\ UNCHANGED <<run, fs, requests, cache, cacheR, ret, retR, df>>

\* a call of data_loader.filter_data_by_date
FilterDataByDate ==
    /\ steps < MaxSteps
    /\ requests = {}
    /\ \E start_date \in {DateArg(0), DateArg(1), TextCell},
          end_date \in {DateArg(0), DateArg(1), TextCell} :
        res' = CalledA("filter_data_by_date",
                       [df |-> df, start_date |-> start_date, end_date |-> end_date],
                       filter_data_by_date(df, start_date, end_date))
    /\ steps' = steps + 1
    /\ UNCHANGED <<run, fs, requests, cache, cacheR, ret, retR, df>>

\* the table is handed to an analysis function, or a file is ingested
\* the date filter with the bounds the sidebar proposes: app.py lines 168-191
\* take get_date_range(df) as the values of the two date inputs, and main
\* filters by them
FilterByDateRange ==
    /\ steps < MaxSteps
    /\ requests = {}
    /\ \E today \in {0, 1} :
        LET range == get_date_range(df, today) IN
        res' = CalledA("filter_by_date_range",
                       [df |-> df, start_date |-> range.min_date,
                        end_date |-> range.max_date],
                       filter_data_by_date(df, range.min_date, range.max_date))
    /\ steps' = steps + 1
    /\ UNCHANGED <<run, fs, requests, cache, cacheR, ret, retR, df>>

InitA ==
    /\ \/ /\ df \in AnalysisInputs
          /\ requests = {}
          /\ fs = NoFiles
       \/ /\ df = EmptyDF
          /\ \E t \in {SheetOne, <<>>}, src \in Sources :
                LET f == [fmt |-> src.fmt, table |-> t] IN
                /\ requests = {RequestOf(src, f)}
                /\ fs = FilesOf(src, f)
    /\ res = NoCall
    /\ run = NoRun
    /\ cache = <<>>
    /\ cacheR = <<>>
    /\ ret = NoCall
    /\ retR = NoCall
    /\ steps = MaxSteps - 1

NextA ==
    \/ CalculateKpiMetrics
    \/ CalculateGrowthRate
    \/ CalculateBasicStatistics
    \/ CalculateMovingAverage
    \/ DetectAnomalies
    \/ CalculateCorrelationMatrix
    \/ GenerateInsights
    \/ FilterDataByDate
    \/ FilterByDateRange
    \/ ValidateFileFormat
    \/ Load

SpecA == InitA /\ [][NextA]_vars

(***************************************************************************)
(* Claims about ingestion.                                                 *)
(***************************************************************************)
\* the loader calls that have returned
Returned == {r \in {ret, retR} : r.called}

\* the file a request denotes in the file system fsys, None when absent
Denoted(a, fsys) ==
    IF ~a.uploaded_file.none THEN Some(a.uploaded_file.v.file)
    ELSE IF ~a.file_path.none
    THEN (IF a.file_path.v \in DOMAIN fsys THEN fsys[a.file_path.v] ELSE None)
    ELSE fsys[DEFAULT_DATA_PATH]

\* the name whose extension the request carries
SourceName(a) ==
    IF ~a.uploaded_file.none THEN a.uploaded_file.v.name
    ELSE IF ~a.file_path.none THEN a.file_path.v
    ELSE DEFAULT_DATA_PATH

\* the reader accepted the file
ReadOk(r) == r.out.reader # "none" /\ r.out.msg # "read_error"

IsNumericColumn(c) ==
    /\ Len(c.cells) > 0
    /\ \A i \in 1..Len(c.cells) : c.cells[i].k \in {"int", "float", "nan"}

HasText(cells) == \E i \in 1..Len(cells) : cells[i].k = "text"

\* a name holding a date/time token, or the literal sentinel 'Unnamed: 0'
NamesADate(n) ==
    \/ \E tok \in {TOKEN_DATA, TOKEN_DATE, TOKEN_VREMYA} : Contains(tok, Lower(n))
    \/ n = UNNAMED_0

\* a name holding any of the four indicators, whatever its case
HoldsIndicator(n) ==
    \E tok \in {TOKEN_DATA, TOKEN_DATE, TOKEN_VREMYA, TOKEN_UNNAMED_0} :
        Contains(tok, Lower(n))

LiteralDateNames == {DEFAULT_DATE_COLUMN_NAME, NAME_DATE}

\* the data columns a sheet keeps when column i becomes the index
KeptColumns(f, i) == Without(Frame(f.table, f.fmt).columns, {i})

C2_AllColumnsNumeric ==
    \A r \in Returned :
        r.out.df # EmptyDF =>
            /\ r.out.df.indexType = "datetime"
            /\ \A i \in 1..Len(r.out.df.columns) :
                  r.out.df.columns[i].dtype \in {"int64", "float64"}

\* C3 as stated: any readable sheet with a column literally named 'Дата' or
\* 'Date' and at least one numeric column is ingested, indexed by that
\* column's timestamps, with that column gone and all others kept.
C3_LiteralDateColumn ==
    \A r \in Returned :
        LET f == Denoted(r.args, fs) IN
        (ReadOk(r) /\ ~f.none) =>
            LET t == f.v.table IN
            ((\E i \in 1..Len(t) : t[i].name \in LiteralDateNames)
              /\ (\E j \in 1..Len(t) : IsNumericColumn(t[j])))
            => \E i \in 1..Len(t) :
                  /\ t[i].name \in LiteralDateNames
                  /\ r.out.df # EmptyDF
                  /\ r.out.df.indexType = "datetime"
                  /\ r.out.df.index = [k \in 1..Len(t[i].cells) |->
                                          Timestamp(t[i].cells[k].v)]
                  /\ r.out.df.columns = KeptColumns(f.v, i)

\* the case C3 holds in: column i is literally 'Дата' or 'Date', no earlier
\* column name holds an indicator, its values all parse, no other column is
\* named 'Дата', and another column is numeric
C3_Case(t, i) ==
    /\ t[i].name \in LiteralDateNames
    /\ \A j \in 1..(i - 1) : ~HoldsIndicator(t[j].name)
    /\ \A k \in 1..Len(t[i].cells) : t[i].cells[k].k = "date"
    /\ \A j \in 1..Len(t) : t[j].name = DEFAULT_DATE_COLUMN_NAME => j = i
    /\ \E j \in 1..Len(t) : j # i /\ IsNumericColumn(t[j])

\* C3 amended: in the case C3_Case the sheet is ingested, indexed by the
\* timestamps of that column, with that column gone and all others kept.
C3_Amended ==
    \A r \in Returned :
        LET f == Denoted(r.args, fs) IN
        (ReadOk(r) /\ ~f.none) =>
            \A i \in 1..Len(f.v.table) :
                C3_Case(f.v.table, i) =>
                    /\ r.out.df.indexType = "datetime"
                    /\ r.out.df.index = [k \in 1..Len(f.v.table[i].cells) |->
                                            Timestamp(f.v.table[i].cells[k].v)]
                    /\ r.out.df.columns = KeptColumns(f.v, i)
                    /\ r.out.msg = "none"

\* a 'Date' column in second place was renamed and made the index, by both loaders
C3_Witness ==
    /\ ret.called /\ retR.called /\ ReadOk(ret) /\ ReadOk(retR)
    /\ LET f == Denoted(ret.args, fs) IN
       /\ ~f.none /\ Len(f.v.table) = 3
       /\ f.v.table[2].name = NAME_DATE
       /\ C3_Case(f.v.table, 2)
       /\ Len(ret.out.df.columns) = 2

\* C4: a sheet none of whose column names holds a date/time token or is the
\* sentinel 'Unnamed: 0', and whose first column's leading values do not
\* parse, is not ingested: the empty table is returned.
C4_NoDateColumnFails ==
    \A r \in Returned :
        LET f == Denoted(r.args, fs) IN
        (/\ ~f.none
         /\ \A i \in 1..Len(f.v.table) : ~NamesADate(f.v.table[i].name)
         /\ Len(f.v.table) > 0 => HasText(head(f.v.table[1].cells)))
        => r.out.df = EmptyDF

\* C5: whatever the source kind, .xlsx/.xls names go to the spreadsheet
\* reader, .csv names to the delimited-text reader, any other name fails
\* as an unsupported format.
C5_DispatchByExtension ==
    \A r \in Returned :
        (~Denoted(r.args, fs).none) =>
            LET name == SourceName(r.args) IN
            IF EndsWith(name, DOT_XLSX) \/ EndsWith(name, DOT_XLS)
            THEN r.out.reader = "read_excel"
            ELSE IF EndsWith(name, DOT_CSV)
            THEN r.out.reader = "read_csv"
            ELSE r.out.reader = "none" /\ r.out.msg = "unsupported_format"

\* C6: a call returns the table of the file its argument denotes at the time
\* of the call, never one computed for another file under the same argument.
C6_NoStaleTable ==
    [][ /\ (ret' # ret =>
              ret'.out.df = load_sales_data(ret'.args.file_path,
                                            ret'.args.uploaded_file, fs).df)
        /\ (retR' # retR =>
              retR'.out.df = load_sales_data_refactored(retR'.args.file_path,
                                            retR'.args.uploaded_file, fs).df)
      ]_vars

\* C8: on the same arguments and file system both loaders return the same table.
C8_LoadersAgree ==
    (ret.called /\ retR.called /\ ret.args = retR.args)
        => ret.out.df = retR.out.df

(***************************************************************************)
(* Claims about the analysis.                                              *)
(***************************************************************************)
ResOf(fn) == res.called /\ res.fn = fn

AllNumeric(d) == \A j \in 1..Len(d.columns) : d.columns[j].dtype \in NumberTypes

\* the sum of all cells of d that hold a number, in halves
CellSum(d) ==
    SumSeq([j \in 1..Len(d.columns) |->
              SumSeq([i \in 1..Len(d.index) |->
                        IF IsNum(d.columns[j].cells[i])
                        THEN Val(d.columns[j].cells[i]) ELSE 0])])

\* C9: calculate_kpi_metrics on an empty table returns exactly the three
\* entries total_sessions = 0, avg_daily_sessions = 0.0 and
\* max_daily_sessions = 0; min_daily_sessions, days_count and growth_rate
\* are absent.
C9_KpiOfEmptyTable ==
    (ResOf("calculate_kpi_metrics") /\ IsTable(res.args.df) /\ IsEmpty(res.args.df))
    => /\ ~res.out.raised
       /\ DOMAIN res.out.val
            = {"total_sessions", "avg_daily_sessions", "max_daily_sessions"}
       /\ res.out.val.total_sessions = 0
       /\ RatEq(res.out.val.avg_daily_sessions, Zero)
       /\ res.out.val.max_daily_sessions = 0

\* C9 witness: the function has been called on a table that has columns
\* but no rows
C9_Witness ==
    /\ ResOf("calculate_kpi_metrics")
    /\ IsTable(res.args.df)
    /\ Len(res.args.df.columns) = 2
    /\ Len(res.args.df.index) = 0
    /\ "total_sessions" \in DOMAIN res.out.val

\* C10 as stated: for a non-empty table of numeric columns total_sessions is
\* the exact sum of all cells, days_count the number of rows and
\* avg_daily_sessions that sum divided by the number of rows.
C10_KpiExactSum ==
    (ResOf("calculate_kpi_metrics") /\ IsTable(res.args.df)
        /\ ~IsEmpty(res.args.df) /\ AllNumeric(res.args.df))
    => /\ ~res.out.raised
       /\ "days_count" \in DOMAIN res.out.val
       /\ 2 * res.out.val.total_sessions = CellSum(res.args.df)
       /\ res.out.val.days_count = Len(res.args.df.index)
       /\ RatEq(res.out.val.avg_daily_sessions,
                Rat(CellSum(res.args.df), 2 * Len(res.args.df.index)))

\* C10 amended: for a non-empty table of numeric columns total_sessions is
\* the sum of the cells that hold a number, truncated toward zero to an
\* integer (the exact sum when that sum is whole); days_count is the number
\* of rows and avg_daily_sessions the untruncated sum divided by the number
\* of rows.
C10_Amended ==
    (ResOf("calculate_kpi_metrics") /\ IsTable(res.args.df)
        /\ ~IsEmpty(res.args.df) /\ AllNumeric(res.args.df))
    => /\ ~res.out.raised
       /\ "days_count" \in DOMAIN res.out.val
       /\ 2 * res.out.val.total_sessions
            = (IF CellSum(res.args.df) % 2 = 0 THEN CellSum(res.args.df)
               ELSE IF CellSum(res.args.df) > 0 THEN CellSum(res.args.df) - 1
               ELSE CellSum(res.args.df) + 1)
       /\ res.out.val.days_count = Len(res.args.df.index)
       /\ RatEq(res.out.val.avg_daily_sessions,
                Rat(CellSum(res.args.df), 2 * Len(res.args.df.index)))

\* C10 witness: the function has been called on a two-column numeric table
\* whose cells sum to a fraction below zero
C10_Witness ==
    /\ ResOf("calculate_kpi_metrics")
    /\ IsTable(res.args.df)
    /\ Len(res.args.df.columns) = 2
    /\ Len(res.args.df.index) = 2
    /\ AllNumeric(res.args.df)
    /\ CellSum(res.args.df) < 0
    /\ CellSum(res.args.df) % 2 = 1
    /\ "days_count" \in DOMAIN res.out.val
    /\ res.out.val.days_count = 2

TableFunctions ==
    {"filter_data_by_date", "filter_by_date_range", "calculate_moving_average",
     "calculate_correlation_matrix"}

\* the call ended in its handler, or its exception escaped
Failed(o) == o.raised \/ o.msg # "none"

\* the empty table, dict or list, by what the function returns
IsEmptyDefault(fn, val) ==
    IF fn \in TableFunctions THEN IsTable(val) /\ val = EmptyDF ELSE val = <<>>

FallbackOf(fn, args) ==
    CASE fn = "calculate_moving_average" -> args.df
      [] fn = "generate_insights" -> ANALYSIS_ERROR
      [] fn \in TableFunctions -> EmptyDF
      [] OTHER -> EmptyDict

C11_GrowthRate ==
    ResOf("_calculate_growth_rate")
    => LET series == res.args.series IN
       /\ ~res.out.raised
       /\ IF Len(series) < 2 \/ series[1] = 0 THEN RatEq(res.out.val, Zero)
          ELSE RatEq(res.out.val,
                     Rat((series[Len(series)] - series[1]) * 100, series[1]))

\* C11 witness: the function has been called on a series of more than two
\* points whose first value is not zero and has returned -100
C11_Witness ==
    /\ ResOf("_calculate_growth_rate")
    /\ Len(res.args.series) > 2
    /\ res.args.series[1] # 0
    /\ res.args.series[2] # res.args.series[1]
    /\ RatEq(res.out.val, Rat(-100, 1))

\* the columns of the result that the input table did not hold
IsNewColumn(o, d) == \A j \in 1..Len(d.columns) : d.columns[j] # o

\* the entry at row i of the moving average of the column c over `window`
\* rows: missing in the first window - 1 rows and where the window holds no
\* value or a missing one, else the sum of the window over its length
IsWindowMean(cell, c, i, window) ==
    IF i < window \/ window = 0
         \/ \E j \in (i - window + 1)..i : ~IsNum(c.cells[j])
    THEN cell = NaN
    ELSE /\ cell.k = "mean"
         /\ cell.w = window
         /\ cell.v = SumSeq([j \in 1..window |-> Val(c.cells[i - window + j])])

\* C12: for any non-empty table and any window, calculate_moving_average
\* returns a table with as many rows as the input in which, for each new
\* column "<col>_MA<window>", the first window - 1 entries are missing and
\* the entry at each later row is the mean of the window consecutive values
\* of <col> that end at that row (missing when one of them is missing).
C12_MovingAverage ==
    (ResOf("calculate_moving_average") /\ IsTable(res.args.df)
        /\ ~IsEmpty(res.args.df))
    => /\ ~res.out.raised
       /\ IsTable(res.out.val)
       /\ Len(res.out.val.index) = Len(res.args.df.index)
       /\ \A j \in 1..Len(res.args.df.columns), m \in 1..Len(res.out.val.columns) :
            LET c == res.args.df.columns[j]
                o == res.out.val.columns[m]
            IN (o.name = MAName(c.name, res.args.window)
                  /\ IsNewColumn(o, res.args.df))
               => /\ Len(o.cells) = Len(c.cells)
                  /\ \A i \in 1..Len(c.cells) :
                        IsWindowMean(o.cells[i], c, i, res.args.window)

\* C12 witness: the function has been called with window 2 on a table of
\* twelve rows and has appended a column whose first entry is missing and
\* whose second entry is a mean
C12_Witness ==
    /\ ResOf("calculate_moving_average")
    /\ IsTable(res.args.df)
    /\ Len(res.args.df.index) = SeasonMinRows
    /\ res.args.window = 2
    /\ IsTable(res.out.val)
    /\ Len(res.out.val.columns) = 2
    /\ res.out.val.columns[2].name = MAName(NAME_A, 2)
    /\ res.out.val.columns[2].cells[1] = NaN
    /\ res.out.val.columns[2].cells[2].k = "mean"
    /\ res.out.val.columns[2].cells[2].v = 4

\* C13: calculate_moving_average preserves every original column: for any
\* input table, whatever its column names, and any window, each column of
\* the input is in the output under the same name with the same values, and
\* the output is the input plus appended columns only.  Stated here for the
\* tables that have rows and columns.
C13_OriginalColumnsKept ==
    (ResOf("calculate_moving_average") /\ IsTable(res.args.df)
        /\ ~IsEmpty(res.args.df))
    => /\ IsTable(res.out.val)
       /\ Len(res.out.val.columns) >= Len(res.args.df.columns)
       /\ \A j \in 1..Len(res.args.df.columns) :
            res.out.val.columns[j] = res.args.df.columns[j]

NumericPositions(d) ==
    Without([j \in 1..Len(d.columns) |-> j],
            {j \in 1..Len(d.columns) : d.columns[j].dtype \notin {"int64", "float64"}})

\* C15: for any non-empty table calculate_basic_statistics returns one
\* entry per numeric column, none for a non-numeric column, and the count
\* of an entry is the number of non-missing values of its column.
C15_StatisticsCount ==
    (ResOf("calculate_basic_statistics") /\ IsTable(res.args.df)
        /\ ~IsEmpty(res.args.df))
    => LET at == NumericPositions(res.args.df) IN
       /\ ~res.out.raised
       /\ res.out.msg = "none"
       /\ Len(res.out.val) = Len(at)
       /\ \A m \in 1..Len(at) :
            LET c == res.args.df.columns[at[m]] IN
            /\ res.out.val[m].key = c.name
            /\ res.out.val[m].value.count
                 = Cardinality({i \in 1..Len(c.cells) : c.cells[i].k \in {"int", "float"}})

\* C15 witness: the function has been called on a two-row table with a
\* float column that misses a value and a text column, and has returned
\* one entry with the count 1
C15_Witness ==
    /\ ResOf("calculate_basic_statistics")
    /\ IsTable(res.args.df)
    /\ Len(res.args.df.index) = 2
    /\ Len(res.args.df.columns) = 2
    /\ res.args.df.columns[1].cells[1] = NaN
    /\ res.args.df.columns[1].cells[2] # NaN
    /\ res.args.df.columns[2].dtype = "object"
    /\ Len(res.out.val) = 1
    /\ res.out.val[1].value.count = 1

\* C16: generate_insights called with an empty table or with an empty
\* statistics mapping returns a list of exactly one element, the fixed
\* "insufficient data" message, and runs none of the steps of the pipeline.
C16_InsufficientData ==
    (ResOf("generate_insights") /\ IsTable(res.args.df)
        /\ (IsEmpty(res.args.df) \/ Len(res.args.statistics) = 0))
    => /\ ~res.out.raised
       /\ res.out.msg = "none"
       /\ Len(res.out.val) = 1
       /\ res.out.val[1].kind = "insufficient_data"

\* C16 witness: the function has been called with an empty statistics
\* mapping on a two-row table whose daily totals grow, and has returned the
\* one message
C16_Witness ==
    /\ ResOf("generate_insights")
    /\ IsTable(res.args.df)
    /\ Len(res.args.df.index) = 2
    /\ AllNumeric(res.args.df)
    /\ res.args.df.columns[1].cells = <<IntCell(-1), IntCell(2)>>
    /\ Len(res.args.statistics) = 0
    /\ Len(res.out.val) = 1
    /\ res.out.val[1].kind = "insufficient_data"

HasMessage(list, kind) == \E i \in 1..Len(list) : list[i].kind = kind

\* C17: validate_file_format reports a blocking error and is_valid = False
\* for an empty table, for a table with no date-like column and for a table
\* with no numeric column; a non-empty table none of whose columns is
\* date-like, by its name or by parsing the first column, gets the "no date
\* column" error.
C17_BlockingErrors ==
    (ResOf("validate_file_format") /\ IsTable(res.args.df))
    => LET d == res.args.df
           v == res.out.val
       IN /\ IsEmpty(d) => ~v.is_valid /\ HasMessage(v.errors, "empty_file")
          /\ (~IsEmpty(d) /\ \A j \in 1..Len(d.columns) : d.columns[j].dtype = "object")
               => ~v.is_valid /\ HasMessage(v.errors, "no_numeric_columns")
          /\ (~IsEmpty(d)
                /\ (\A j \in 1..Len(d.columns) : ~NamesADate(d.columns[j].name))
                /\ HasText(head(d.columns[1].cells)))
               => ~v.is_valid /\ HasMessage(v.errors, "no_date_column")

AnalysisFunctions ==
    {"calculate_basic_statistics", "calculate_kpi_metrics", "calculate_moving_average",
     "detect_anomalies", "calculate_correlation_matrix", "generate_insights"}

\* C18: no analysis function mutates the table passed to it: after any
\* call, on any path, the caller's table has the same columns, index and
\* values as the table that was handed over.
C18_NoMutation ==
    (res.called /\ res.fn \in AnalysisFunctions) => df = res.args.df

\* C18 witness: calculate_moving_average has appended a column to its
\* result and the caller's table is the one that was handed over
C18_Witness ==
    /\ ResOf("calculate_moving_average")
    /\ IsTable(res.args.df)
    /\ IsTable(res.out.val)
    /\ Len(res.out.val.columns) > Len(res.args.df.columns)
    /\ df = res.args.df

\* |value - mean| / std > t for the value x of a column with the numbers xs;
\* x and xs count halves, t counts halves too, std is the sample deviation
ZScoreRule(x, xs, t) ==
    LET n == Len(xs)
        dev == n * x - SumSeq(xs)
        ss == SumSeq([i \in 1..n |-> (n * xs[i] - SumSeq(xs)) * (n * xs[i] - SumSeq(xs))])
    IN n >= 2 /\ ss > 0 /\ (t < 0 \/ 4 * (n - 1) * dev * dev > t * t * ss)

\* four times the quartile at num/4 of the numbers xs, interpolated between
\* the neighbours of the position num * (n - 1) / 4 in sorted order
Quartile4(xs, num) ==
    LET sorted == [k \in 1..Len(xs) |-> Kth(xs, k)]
        below == (num * (Len(xs) - 1)) \div 4 + 1
        part == (num * (Len(xs) - 1)) % 4
    IN IF part = 0 THEN 4 * sorted[below]
       ELSE (4 - part) * sorted[below] + part * sorted[below + 1]

\* value < Q1 - t * IQR or value > Q3 + t * IQR
IqrRule(x, xs, t) ==
    /\ Len(xs) >= 1
    /\ LET q1 == Quartile4(xs, 1)
           q3 == Quartile4(xs, 3)
       IN \/ 8 * x < 2 * q1 - t * (q3 - q1)
          \/ 8 * x > 2 * q3 + t * (q3 - q1)

\* the rows of the column c that the method's rule flags, in row order
RuleRows(c, t, method) ==
    LET xs == [i \in 1..Cardinality({j \in 1..Len(c.cells) : IsNum(c.cells[j])}) |->
                 Val(c.cells[CHOOSE j \in 1..Len(c.cells) :
                       /\ IsNum(c.cells[j])
                       /\ Cardinality({h \in 1..j : IsNum(c.cells[h])}) = i])]
        flagged(i) == /\ IsNum(c.cells[i])
                      /\ IF method = "zscore" THEN ZScoreRule(Val(c.cells[i]), xs, t)
                         ELSE IqrRule(Val(c.cells[i]), xs, t)
    IN Without([i \in 1..Len(c.cells) |-> i], {i \in 1..Len(c.cells) : ~flagged(i)})

\* C19: for the method "zscore" or "iqr" on a non-empty table (and a numeric
\* threshold) detect_anomalies returns one entry for every numeric column,
\* possibly an empty list, and the entry is exactly the (timestamp, value)
\* pairs of the rows that satisfy the rule, in row order: zscore flags
\* |value - mean| / std > threshold, iqr flags the values below
\* Q1 - threshold * IQR or above Q3 + threshold * IQR.
C19_AnomalyEntries ==
    (ResOf("detect_anomalies") /\ IsTable(res.args.df) /\ ~IsEmpty(res.args.df)
        /\ res.args.method \in {"zscore", "iqr"} /\ res.args.threshold.k = "float")
    => LET d == res.args.df
           at == NumericPositions(d)
       IN /\ ~res.out.raised
          /\ res.out.msg = "none"
          /\ Len(res.out.val) = Len(at)
          /\ \A m \in 1..Len(at) :
               LET c == d.columns[at[m]]
                   rows == RuleRows(c, res.args.threshold.v, res.args.method)
                   entry == res.out.val[m]
               IN /\ entry.key = c.name
                  /\ Len(entry.value) = Len(rows)
                  /\ \A r \in 1..Len(rows) :
                        /\ entry.value[r].date = d.index[rows[r]]
                        /\ RatEq(entry.value[r].value, Rat(Val(c.cells[rows[r]]), 2))

\* C19 witness: the z-score method with the threshold 2.0 has flagged one
\* row of a twelve-row table, the third
C19_Witness ==
    /\ ResOf("detect_anomalies")
    /\ res.args.method = "zscore"
    /\ res.args.threshold = FloatCell(4)
    /\ IsTable(res.args.df)
    /\ res.args.df.indexType = "datetime"
    /\ Len(res.args.df.index) = SeasonMinRows
    /\ Len(res.out.val) = 1
    /\ Len(res.out.val[1].value) = 1
    /\ res.out.val[1].value[1].date = res.args.df.index[3]
    /\ RatEq(res.out.val[1].value[1].value, Rat(2, 1))

\* the table d with its non-numeric columns removed
NumericOnly(d) == [d EXCEPT !.columns = NumericColumns(d)]

\* C20: the daily totals of calculate_kpi_metrics are the row sums over the
\* numeric columns only: on a table with rows that holds a numeric and a
\* non-numeric column the function returns, without an error message, the
\* KPIs of the same table with the non-numeric columns removed.
C20_NumericOnlyTotals ==
    (ResOf("calculate_kpi_metrics") /\ IsTable(res.args.df)
        /\ Len(res.args.df.index) > 0
        /\ Len(NumericColumns(res.args.df)) > 0
        /\ ~AllNumeric(res.args.df))
    => /\ ~res.out.raised
       /\ res.out.msg = "none"
       /\ res.out.val = calculate_kpi_metrics(NumericOnly(res.args.df), TRUE).val

\* the place of a message in the pipeline of generate_insights
StageOf(kind) ==
    IF kind \in {"growth_positive", "growth_negative"} THEN 1
    ELSE IF kind = "leader" THEN 2
    ELSE IF kind = "volatile" THEN 3
    ELSE IF kind = "peak_month" THEN 4
    ELSE 0

\* the position in statistics of the entry with the key `product`
EntryOf(statistics, product) ==
    CHOOSE i \in 1..Len(statistics) : statistics[i].key = product

\* C21: the list generate_insights returns for a non-empty table and
\* non-empty statistics, when no step has failed, is in pipeline order: the growth message (at most
\* one) comes before the top-performer message, that one before the
\* volatility messages, which follow the order of the statistics entries,
\* and those before the peak-month message (at most one); the list holds
\* exactly one top-performer message, and it names a column whose sum no
\* other column exceeds.
C21_PipelineOrder ==
    (ResOf("generate_insights") /\ IsTable(res.args.df) /\ ~IsEmpty(res.args.df)
        /\ Len(res.args.statistics) > 0 /\ res.out.msg = "none")
    => LET out == res.out.val
           st == res.args.statistics
           at(stage) == {i \in 1..Len(out) : StageOf(out[i].kind) = stage}
       IN /\ \A i \in 1..Len(out) : StageOf(out[i].kind) > 0
          /\ \A i, j \in 1..Len(out) :
                i < j => StageOf(out[i].kind) <= StageOf(out[j].kind)
          /\ Cardinality(at(1)) <= 1
          /\ Cardinality(at(2)) = 1
          /\ Cardinality(at(4)) <= 1
          /\ \A i \in at(2) :
                /\ \E e \in 1..Len(st) : st[e].key = out[i].product
                /\ \A e \in 1..Len(st) :
                      RatLe(st[e].value.sum, st[EntryOf(st, out[i].product)].value.sum)
          /\ \A i, j \in at(3) :
                i < j => EntryOf(st, out[i].product) < EntryOf(st, out[j].product)

\* C21 witness: a list with all four steps: a negative growth, the leader,
\* a volatile column and the peak month
C21_Witness ==
    /\ ResOf("generate_insights")
    /\ res.out.msg = "none"
    /\ Len(res.out.val) = 4
    /\ res.out.val[1].kind = "growth_negative"
    /\ res.out.val[2].kind = "leader"
    /\ res.out.val[3].kind = "volatile"
    /\ res.out.val[4].kind = "peak_month"

\* the daily total of row i of d: the sum of its numbers, in halves
DailyTotal(d, i) ==
    SumSeq([j \in 1..Len(d.columns) |->
              IF IsNum(d.columns[j].cells[i]) THEN Val(d.columns[j].cells[i]) ELSE 0])

\* (last - first) / first * 100 of the daily totals of d is above `percent`;
\* the rate of fewer than two rows or of a first total of zero is 0
GrowthAbove(d, percent) ==
    LET first == DailyTotal(d, 1)
        last == DailyTotal(d, Len(d.index))
    IN IF Len(d.index) < 2 \/ first = 0 THEN 0 > percent
       ELSE IF first > 0 THEN 100 * (last - first) > percent * first
       ELSE 100 * (last - first) < percent * first

\* the same rate is below `percent`
GrowthBelow(d, percent) ==
    LET first == DailyTotal(d, 1)
        last == DailyTotal(d, Len(d.index))
    IN IF Len(d.index) < 2 \/ first = 0 THEN 0 < percent
       ELSE IF first > 0 THEN 100 * (last - first) < percent * first
       ELSE 100 * (last - first) > percent * first

\* the growth messages of the list follow the rate of the daily totals
GrowthMessagesFollowRate ==
    /\ HasMessage(res.out.val, "growth_positive")
          <=> (Len(res.args.df.index) >= 2 /\ GrowthAbove(res.args.df, 10))
    /\ HasMessage(res.out.val, "growth_negative")
          <=> (Len(res.args.df.index) >= 2 /\ GrowthBelow(res.args.df, -10))
    /\ ~(HasMessage(res.out.val, "growth_positive")
           /\ HasMessage(res.out.val, "growth_negative"))

RowsOfMonth(d, m) == {i \in 1..Len(d.index) : MonthOf(d.index[i].v) = m}

\* the sum of the daily totals of the rows of d in the month m, in halves
MonthTotal(d, m) ==
    LET rows == RowsOfMonth(d, m) IN
    SumSeq([i \in 1..Len(d.index) |-> IF i \in rows THEN DailyTotal(d, i) ELSE 0])

\* C23: for a date-indexed numeric table of at least twelve rows, missing
\* cells included, the peak-month message of generate_insights names a month
\* whose mean daily total (the row sums averaged over the rows of the month)
\* no other month of the table exceeds.
C23_PeakMonth ==
    (ResOf("generate_insights") /\ IsTable(res.args.df)
        /\ Len(res.args.df.index) >= SeasonMinRows
        /\ res.args.df.indexType = "datetime"
        /\ AllNumeric(res.args.df)
        /\ Len(res.args.statistics) > 0 /\ res.out.msg = "none")
    => LET d == res.args.df
           out == res.out.val
           months == {MonthOf(d.index[i].v) : i \in 1..Len(d.index)}
       IN /\ HasMessage(out, "peak_month")
          /\ \A i \in 1..Len(out) :
                out[i].kind = "peak_month"
                => /\ out[i].month \in months
                   /\ \A o \in months :
                         MonthTotal(d, o) * Cardinality(RowsOfMonth(d, out[i].month))
                           <= MonthTotal(d, out[i].month) * Cardinality(RowsOfMonth(d, o))

\* C24: in every result of validate_file_format is_valid is False exactly
\* when the list of errors is not empty; the warnings (a single numeric
\* column, a suspicious first column, negative or missing values) never make
\* is_valid False, and the function never raises.
C24_ValidIffNoErrors ==
    ResOf("validate_file_format")
    => /\ ~res.out.raised
       /\ res.out.val.is_valid \in BOOLEAN
       /\ (~res.out.val.is_valid) <=> (Len(res.out.val.errors) > 0)

\* C24 witness: a table with a single numeric column that holds a negative
\* and a missing value has been found valid, with warnings and no error
C24_Witness ==
    /\ ResOf("validate_file_format")
    /\ res.out.val.is_valid
    /\ Len(res.out.val.errors) = 0
    /\ HasMessage(res.out.val.warnings, "single_numeric_column")
    /\ HasMessage(res.out.val.warnings, "negative_values")
    /\ HasMessage(res.out.val.warnings, "missing_values")

\* C25: generate_insights never returns an empty list: for every table and
\* every statistics mapping (empty input, normal path or internal failure)
\* the call returns, without raising, a list of at least one message.
C25_NeverEmpty ==
    ResOf("generate_insights") => (~res.out.raised /\ Len(res.out.val) >= 1)

\* C25 witness: on the normal path the top-performer message alone has made
\* up the list, for a table with neither growth nor volatility nor season
C25_Witness ==
    /\ ResOf("generate_insights")
    /\ IsTable(res.args.df) /\ ~IsEmpty(res.args.df)
    /\ Len(res.args.statistics) > 0
    /\ res.out.msg = "none"
    /\ Len(res.out.val) = 1
    /\ res.out.val[1].kind = "leader"

\* C26: a "positive dynamic" message is emitted only when the last daily
\* total is greater than the first, and a "negative dynamic" message only
\* when the last daily total is smaller than the first, for tables with
\* negative cells too.
C26_GrowthDirection ==
    (ResOf("generate_insights") /\ IsTable(res.args.df) /\ ~IsEmpty(res.args.df))
    => LET d == res.args.df
           first == DailyTotal(d, 1)
           last == DailyTotal(d, Len(d.index))
       IN /\ HasMessage(res.out.val, "growth_positive") => last > first
          /\ HasMessage(res.out.val, "growth_negative") => last < first

\* C27: filtering a non-empty date-indexed table by the bounds that
\* get_date_range returns for it gives back every row of the table in the
\* original order, whatever the time of day of its instants.
C27_RangeFilterIdentity ==
    (ResOf("filter_by_date_range") /\ IsTable(res.args.df) /\ ~IsEmpty(res.args.df)
        /\ res.args.df.indexType = "datetime"
        /\ \A i \in 1..Len(res.args.df.index) : res.args.df.index[i].k = "ts")
    => /\ ~res.out.raised
       /\ res.out.msg = "none"
       /\ res.out.val = res.args.df

\* C28: for a non-empty numeric table for which calculate_kpi_metrics
\* succeeds, min_daily_sessions <= avg_daily_sessions <= max_daily_sessions
\* holds in the KPIs returned, with fractional and negative cells too.
C28_MinAvgMax ==
    (ResOf("calculate_kpi_metrics") /\ IsTable(res.args.df) /\ ~IsEmpty(res.args.df)
        /\ AllNumeric(res.args.df) /\ res.out.msg = "none")
    => LET kpi == res.out.val IN
       /\ kpi.avg_daily_sessions.k = "rat"
       /\ kpi.avg_daily_sessions.d > 0
       /\ kpi.min_daily_sessions * kpi.avg_daily_sessions.d <= kpi.avg_daily_sessions.n
       /\ kpi.avg_daily_sessions.n <= kpi.max_daily_sessions * kpi.avg_daily_sessions.d

\* the step is a call of a loader, seen through its record of the last call:
\* an empty table it returns is stored under the arguments, and a stored
\* return value is replayed without a new computation
MemoStep(last, next, memo, memoNext) ==
    next # last
    => /\ next.out.df = EmptyDF
            => (next.args \in DOMAIN memoNext /\ memoNext[next.args] = next.out)
       /\ next.args \in DOMAIN memo
            => (next.hit /\ next.out = memo[next.args])

\* C29: failed ingestions are memoised like successful ones.  Every call
\* that returns the empty table leaves it stored under its arguments, no
\* stored value is ever dropped or replaced, and a call whose arguments have
\* a stored value returns that value without reading again; hence once a
\* loader has returned the empty table for given arguments, every later
\* call with these arguments returns the empty table, also after the file
\* has become available.
C29_FailureMemoized ==
    [][ /\ MemoStep(ret, ret', cache, cache')
        /\ MemoStep(retR, retR', cacheR, cacheR')
        /\ \A k \in DOMAIN cache : k \in DOMAIN cache' /\ cache'[k] = cache[k]
        /\ \A k \in DOMAIN cacheR : k \in DOMAIN cacheR' /\ cacheR'[k] = cacheR[k]
      ]_vars

\* C29 witness: a call by a path has replayed the empty table although a
\* file that loads is behind the path now
C29_Witness ==
    /\ ret.called
    /\ ret.hit
    /\ ret.out.df = EmptyDF
    /\ ~ret.args.file_path.none
    /\ exists(fs, ret.args.file_path.v)
    /\ load_sales_data(ret.args.file_path, ret.args.uploaded_file, fs).df # EmptyDF

(***************************************************************************)
(* data_loader.validate_data                                               *)
(***************************************************************************)
\* lines 168-185: a non-empty table with a date index and a numeric column
validate_data(d) ==
    /\ ~IsEmpty(d)
    /\ d.indexType = "datetime"
    /\ select_dtypes(d, {"int64", "float64"}) # {}

(***************************************************************************)
(* SpecMain: runs of app.main.  A run goes through the stages of main; the *)
(* script runs again after it has ended, with the cache of the loader kept.*)
(***************************************************************************)
MaxRuns == 2      \* runs of app.main

\* a sheet with a row at noon of every other day, and one without numbers
SheetThree ==
    <<[name |-> DEFAULT_DATE_COLUMN_NAME, cells |-> [i \in 1..Rows |-> DateCell(4 * i + 1)]],
      [name |-> NAME_A, cells |-> Floats]>>
SheetText ==
    <<[name |-> DEFAULT_DATE_COLUMN_NAME, cells |-> Dates],
      [name |-> NAME_NOTE, cells |-> Texts]>>

MainFiles == {[fmt |-> "excel", table |-> t] : t \in {SheetOne, SheetThree, SheetText}}

\* what the file uploader holds: nothing or a file under a name
Uploads ==
    {None} \cup {Some([name |-> FILE_XLSX, file |-> f]) : f \in MainFiles}
           \cup {Some([name |-> FILE_TXT, file |-> [fmt |-> "excel", table |-> SheetOne]])}

\* the state of main at its first statement
StartRun(n) ==
    [pc |-> "navigation", loaded |-> None, valid |-> FALSE,
     start_date |-> DateArg(0), end_date |-> DateArg(0), show_anomalies |-> FALSE,
     filtered |-> None, calls |-> <<>>, runs |-> n]

\* app.py lines 442-448: the help page ends the run
MainNavigate ==
    /\ run.pc = "navigation"
    /\ \E current_page \in {"help", "analysis"} :
        run' = [run EXCEPT !.pc = IF current_page = "help" THEN "done" ELSE "upload"]
    /\ UNCHANGED <<fs, requests, cache, cacheR, ret, retR, steps, df, res>>

\* app.py lines 83-153 and 457-462: handle_file_upload returns the loaded
\* table, or None when nothing is uploaded, the table is empty or an upload
\* fails validate_file_format; main ends on None
MainHandleFileUpload ==
    /\ run.pc = "upload"
    /\ \E data_source \in {"demo", "upload"}, uploaded_file \in Uploads :
        IF data_source = "upload" /\ uploaded_file.none
        THEN /\ run' = [run EXCEPT !.pc = "done"]
             /\ UNCHANGED <<cache, ret>>
        ELSE LET a == IF data_source = "upload" THEN Request(None, uploaded_file)
                      ELSE Request(None, None)
                 c == cache_data(cache, a,
                                 load_sales_data(a.file_path, a.uploaded_file, fs))
                 validated == data_source = "upload" /\ ~IsEmpty(c.out.df)
                 loaded == IF IsEmpty(c.out.df) THEN None
                           ELSE IF validated /\ ~validate_file_format(c.out.df).is_valid
                           THEN None
                           ELSE c.out.df
             IN /\ run' = [run EXCEPT
                             !.loaded = loaded,
                             !.calls = @ \o <<"load_sales_data">>
                                         \o (IF validated THEN <<"validate_file_format">>
                                             ELSE <<>>),
                             !.pc = IF IsTable(loaded) THEN "validation" ELSE "done"]
                /\ cache' = c.memo
                /\ ret' = Called(a, c)
    /\ UNCHANGED <<fs, requests, cacheR, retR, steps, df, res>>

\* app.py lines 464-467: df.empty or not validate_data(df) ends the run
MainValidateData ==
    /\ run.pc = "validation"
    /\ run' = [run EXCEPT
                 !.valid = validate_data(run.loaded),
                 !.calls = @ \o (IF IsEmpty(run.loaded) THEN <<>> ELSE <<"validate_data">>),
                 !.pc = IF validate_data(run.loaded) THEN "controls" ELSE "done"]
    /\ UNCHANGED <<fs, requests, cache, cacheR, ret, retR, steps, df, res>>

\* app.py lines 156-237: the two date inputs offer the days of
\* get_date_range(df); a start after the end is replaced by the full range
MainCreateSidebarControls ==
    /\ run.pc = "controls"
    /\ \E today \in {0}, show_anomalies \in BOOLEAN :
        LET range == get_date_range(run.loaded, today) IN
        \E start_date \in range.min_date.v .. range.max_date.v,
           end_date \in range.min_date.v .. range.max_date.v :
            run' = [run EXCEPT
                      !.start_date = IF start_date > end_date THEN range.min_date
                                     ELSE DateArg(start_date),
                      !.end_date = IF start_date > end_date THEN range.max_date
                                   ELSE DateArg(end_date),
                      !.show_anomalies = show_anomalies,
                      !.calls = @ \o <<"get_date_range">>,
                      !.pc = "filter"]
    /\ UNCHANGED <<fs, requests, cache, cacheR, ret, retR, steps, df, res>>

\* a main that goes on with an empty selection
main_after_filter_Unchecked(filtered_df) == "metrics"

\* app.py lines 475-477: an empty selection ends the run
main_after_filter(filtered_df) == IF IsEmpty(filtered_df) THEN "done" ELSE "metrics"

\* app.py lines 472-477
MainFilterData ==
    /\ run.pc = "filter"
    /\ LET filtered_df == filter_data_by_date(run.loaded, run.start_date,
                                              run.end_date).val
       IN run' = [run EXCEPT !.filtered = filtered_df,
                             !.calls = @ \o <<"filter_data_by_date">>,
                             !.pc = main_after_filter(filtered_df)]
    /\ UNCHANGED <<fs, requests, cache, cacheR, ret, retR, steps, df, res>>

\* app.py lines 480-485
MainCalculateMetrics ==
    /\ run.pc = "metrics"
    /\ run' = [run EXCEPT
                 !.calls = @ \o <<"calculate_basic_statistics", "calculate_kpi_metrics",
                                  "display_kpi_metrics">>,
                 !.pc = "charts"]
    /\ UNCHANGED <<fs, requests, cache, cacheR, ret, retR, steps, df, res>>

\* app.py lines 490-500: the charts; an exception of a plotting function
\* reaches the handler of main (lines 522-525) and ends the run
MainDisplayCharts ==
    /\ run.pc = "charts"
    /\ \E fails \in BOOLEAN :
        run' = [run EXCEPT
                  !.calls = @ \o <<"display_main_chart">>
                              \o (IF run.show_anomalies THEN <<"detect_anomalies">>
                                  ELSE <<>>)
                              \o (IF fails THEN <<>>
                                  ELSE <<"display_product_analysis",
                                         "calculate_correlation_matrix",
                                         "display_additional_charts">>),
                  !.pc = IF fails THEN "done" ELSE "insights"]
    /\ UNCHANGED <<fs, requests, cache, cacheR, ret, retR, steps, df, res>>

\* app.py lines 503-505 and 418-434
MainDisplayInsights ==
    /\ run.pc = "insights"
    /\ run' = [run EXCEPT !.calls = @ \o <<"generate_insights">>, !.pc = "table"]
    /\ UNCHANGED <<fs, requests, cache, cacheR, ret, retR, steps, df, res>>

\* app.py lines 508-520
MainDisplayDataTable ==
    /\ run.pc = "table"
    /\ run' = [run EXCEPT !.calls = @ \o <<"display_data_table", "prepare_data_summary">>,
                          !.pc = "done"]
    /\ UNCHANGED <<fs, requests, cache, cacheR, ret, retR, steps, df, res>>

\* the next interaction runs the script again
MainRerun ==
    /\ run.pc = "done"
    /\ run.runs + 1 < MaxRuns
    /\ run' = StartRun(run.runs + 1)
    /\ UNCHANGED <<fs, requests, cache, cacheR, ret, retR, steps, df, res>>

InitMain ==
    /\ \E demo \in {None} \cup {Some(f) : f \in MainFiles} :
        fs = [p \in Paths |-> IF p = DEFAULT_DATA_PATH THEN demo ELSE None]
    /\ requests = {}
    /\ cache = <<>>
    /\ cacheR = <<>>
    /\ ret = NoCall
    /\ retR = NoCall
    /\ steps = 0
    /\ df = EmptyDF
    /\ res = NoCall
    /\ run = StartRun(0)

NextMain ==
    \/ MainNavigate
    \/ MainHandleFileUpload
    \/ MainValidateData
    \/ MainCreateSidebarControls
    \/ MainFilterData
    \/ MainCalculateMetrics
    \/ MainDisplayCharts
    \/ MainDisplayInsights
    \/ MainDisplayDataTable
    \/ MainRerun

SpecMain == InitMain /\ [][NextMain]_vars

\* the place of a position of main in the order of its statements
StageRank(pc) ==
    CASE pc = "navigation" -> 1
      [] pc = "upload" -> 2
      [] pc = "validation" -> 3
      [] pc = "controls" -> 4
      [] pc = "filter" -> 5
      [] pc = "metrics" -> 6
      [] pc = "charts" -> 7
      [] pc = "insights" -> 8
      [] pc = "table" -> 9
      [] OTHER -> 10

\* the calls main makes in its analysis part
AnalysisCalls ==
    {"calculate_basic_statistics", "calculate_kpi_metrics", "display_kpi_metrics",
     "display_main_chart", "detect_anomalies", "display_product_analysis",
     "calculate_correlation_matrix", "display_additional_charts",
     "generate_insights", "display_data_table", "prepare_data_summary"}

\* C30: in every run of app.main the stages go one way: each step moves main
\* to a later statement (or starts the next run after the end), and a call
\* of the analysis part is made only after load_sales_data returned a
\* non-empty table, then validate_data returned True, then
\* filter_data_by_date, called with start_date <= end_date, returned a
\* non-empty table; a run in which one of them fails ends with no such call.
C30_OneDirection ==
    [][ /\ \/ run.pc = "done" /\ run'.pc = "navigation"
           \/ StageRank(run'.pc) > StageRank(run.pc)
        /\ \A i \in 1..Len(run'.calls) :
              /\ run'.calls[i] \in AnalysisCalls
                    => /\ IsTable(run'.loaded) /\ ~IsEmpty(run'.loaded)
                       /\ run'.valid
                       /\ IsTable(run'.filtered) /\ ~IsEmpty(run'.filtered)
                       /\ \E l, v, f \in 1..(i - 1) :
                             /\ l < v /\ v < f
                             /\ run'.calls[l] = "load_sales_data"
                             /\ run'.calls[v] = "validate_data"
                             /\ run'.calls[f] = "filter_data_by_date"
              /\ run'.calls[i] = "filter_data_by_date"
                    => run'.start_date.v <= run'.end_date.v
      ]_vars

\* C30 witness: a run has gone through every stage down to the data table,
\* on a selection of days that is not the whole range
C30_Witness ==
    /\ run.pc = "done"
    /\ Len(run.calls) > 0
    /\ run.calls[Len(run.calls)] = "prepare_data_summary"
    /\ IsTable(run.filtered) /\ ~IsEmpty(run.filtered)
    /\ Len(run.filtered.index) < Len(run.loaded.index)

====
